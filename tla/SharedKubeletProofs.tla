----------------------- MODULE SharedKubeletProofs -----------------------
(***************************************************************************)
(* Proofs about NodeCapacity, and about the kubelet it is a part of.       *)
(*                                                                         *)
(* The first part shows that distributeQuotas divides every quota fairly.  *)
(* Its loop and its sums are recursive functions, and TLA+ says of such a  *)
(* function only that it satisfies its equation if some function does; so  *)
(* the proof first builds one, from induction over sets of numbers and of  *)
(* finite sets.  The second part shows that kubelets whose caches are      *)
(* current report these shares and stay with them.  The third part carries *)
(* what this module, ObjectSyncProofs and VirtualPodsProofs show of the    *)
(* parts over to SharedKubelet.                                            *)
(***************************************************************************)
EXTENDS SharedKubelet, ObjectSyncProofs, VirtualPodsProofs, FiniteSetTheorems, TLAPS

-----------------------------------------------------------------------------
(* Induction and recursion.                                                 *)

\* A nonempty set of numbers has a least element.
LEMMA LeastNatural ==
    ASSUME NEW T, T \subseteq Nat, T # {}
    PROVE  \E n \in T : \A m \in T : n <= m
<1> DEFINE S == {0 .. n : n \in T}
<1> DEFINE R == StrictSubsetOrdering(Nat)
<1>1. IsWellFoundedOn(R, FiniteSubsetsOf(Nat))
  BY FS_StrictSubsetOrderingWellFounded
<1>2. S \subseteq FiniteSubsetsOf(Nat) /\ S # {}
  <2>1. \A n \in T : IsFiniteSet(0 .. n) /\ 0 .. n \subseteq Nat
    BY FS_Interval
  <2>2. QED
    BY <2>1 DEF FiniteSubsetsOf
<1>3. PICK s \in S : \A u \in S : <<u, s>> \notin R
  <2> HIDE DEF S, R
  <2>1. QED
    BY <1>1, <1>2, WFMin
<1>4. PICK n \in T : s = 0 .. n
  OBVIOUS
<1>5. ASSUME NEW m \in T, m < n PROVE FALSE
  <2>1. 0 .. m \in S /\ 0 .. m \subseteq s /\ 0 .. m # s
    BY <1>4, <1>5
  <2>2. <<0 .. m, s>> \in R
    BY <1>4, <2>1 DEF StrictSubsetOrdering
  <2>3. QED
    BY <1>3, <2>1, <2>2
<1>6. QED
  BY <1>5
\* So induction holds for sets of numbers,
LEMMA NatInductionSet ==
    ASSUME NEW A, 0 \in A, \A n \in Nat : n \in A => n + 1 \in A
    PROVE  Nat \subseteq A
<1>1. SUFFICES ASSUME Nat \ A # {} PROVE FALSE
  OBVIOUS
<1>2. PICK n \in Nat \ A : \A m \in Nat \ A : n <= m
  <2>1. Nat \ A \subseteq Nat
    OBVIOUS
  <2>2. QED
    BY <1>1, <2>1, LeastNatural
<1>3. n # 0 /\ n - 1 \in Nat /\ ~(n <= n - 1)
  BY <1>2
<1>4. n - 1 \in A
  BY <1>2, <1>3
<1>5. (n - 1) + 1 = n
  BY <1>2
<1>6. QED
  BY <1>2, <1>3, <1>4, <1>5

\* and for sets of finite sets.
LEMMA FiniteSetInductionSet ==
    ASSUME NEW S, IsFiniteSet(S), NEW A, {} \in A,
           \A T \in SUBSET S, x \in S : T \in A /\ x \notin T => T \union {x} \in A
    PROVE  S \in A
<1> DEFINE B == {n \in Nat : \A T \in SUBSET S : Cardinality(T) = n => T \in A}
<1>1. \A T \in SUBSET S : IsFiniteSet(T) /\ Cardinality(T) \in Nat
  BY FS_Subset, FS_CardinalityType
<1>2. 0 \in B
  BY <1>1, FS_EmptySet
<1>3. ASSUME NEW n \in Nat, n \in B PROVE n + 1 \in B
  <2>1. SUFFICES ASSUME NEW T \in SUBSET S, Cardinality(T) = n + 1 PROVE T \in A
    OBVIOUS
  <2>2. T # {}
    <3>1. Cardinality({}) = 0 /\ n + 1 # 0
      BY FS_EmptySet
    <3>2. QED
      BY <2>1, <3>1
  <2>3. PICK x \in T : TRUE
    BY <2>2
  <2>4. Cardinality(T \ {x}) = n
    <3>1. Cardinality(T \ {x}) = Cardinality(T) - 1
      BY <1>1, FS_RemoveElement
    <3>2. QED
      BY <2>1, <3>1
  <2>5. T \ {x} \in A
    BY <1>3, <2>4
  <2>6. T \ {x} \in SUBSET S /\ x \in S /\ x \notin T \ {x} /\ (T \ {x}) \union {x} = T
    OBVIOUS
  <2>7. QED
    BY <2>5, <2>6
<1>4. Nat \subseteq B
  <2> HIDE DEF B
  <2>1. QED
    BY <1>2, <1>3, NatInductionSet
<1>5. QED
  BY <1>1, <1>4

Terminates(D, V, K, m, stop, base, next, comb) ==
    /\ K \in Nat /\ m \in [D -> 0 .. K]
    /\ base \in [D -> V] /\ next \in [D -> D] /\ comb \in [D \X V -> V]
    /\ \A d \in D : d \notin stop => m[next[d]] < m[d]

Computes(F, D, V, stop, base, next, comb) ==
    /\ F \in [D -> V]
    /\ \A d \in D : F[d] = IF d \in stop THEN base[d] ELSE comb[<<d, F[next[d]]>>]

\* A recursion that ends for every argument has a function that computes it.
LEMMA RecursionExists ==
    ASSUME NEW D, NEW V, NEW K, NEW m, NEW stop, NEW base, NEW next, NEW comb,
           Terminates(D, V, K, m, stop, base, next, comb)
    PROVE  \E F : Computes(F, D, V, stop, base, next, comb)
<1> USE DEF Terminates
<1> DEFINE Rhs(F, d) == IF d \in stop THEN base[d] ELSE comb[<<d, F[next[d]]>>]
<1> DEFINE B == {k \in Nat : \E F \in [D -> V] : \A d \in D : m[d] < k => F[d] = Rhs(F, d)}
<1>0. \A d \in D : m[d] \in Nat /\ m[d] <= K
  OBVIOUS
<1>1. 0 \in B
  BY <1>0
<1>2. ASSUME NEW k \in Nat, k \in B PROVE k + 1 \in B
  <2>1. PICK F \in [D -> V] : \A d \in D : m[d] < k => F[d] = Rhs(F, d)
    BY <1>2
  <2> DEFINE G == [d \in D |-> Rhs(F, d)]
  <2>2. G \in [D -> V]
    OBVIOUS
  <2>3. ASSUME NEW d \in D, m[d] < k + 1 PROVE G[d] = Rhs(G, d)
    <3>1. CASE d \in stop
      BY <3>1
    <3>2. CASE d \notin stop
      <4>1. m[next[d]] < k /\ next[d] \in D
        BY <1>0, <2>3, <3>2
      <4>2. F[next[d]] = G[next[d]]
        BY <2>1, <4>1
      <4>3. QED
        BY <3>2, <4>2
    <3>3. QED
      BY <3>1, <3>2
  <2>4. \E H \in [D -> V] : \A d \in D : m[d] < k + 1 => H[d] = Rhs(H, d)
    <3> HIDE DEF Rhs, G
    <3>1. QED
      BY <2>2, <2>3
  <2>5. QED
    BY <2>4
<1>3. K + 1 \in B
  <2> HIDE DEF B
  <2>1. Nat \subseteq B
    BY <1>1, <1>2, NatInductionSet
  <2>2. QED
    BY <2>1
<1>4. \A d \in D : m[d] < K + 1
  BY <1>0
<1>5. PICK F \in [D -> V] : \A d \in D : m[d] < K + 1 => F[d] = Rhs(F, d)
  BY <1>3
<1>6. Computes(F, D, V, stop, base, next, comb)
  BY <1>4, <1>5 DEF Computes
<1>7. QED
  BY <1>6

\* The recursive function of the library's MapThenSumSet.
pick(T) == CHOOSE x \in T : TRUE
IsSum(g, f, S) ==
    g = [T \in SUBSET S |-> IF T = {} THEN 0 ELSE f[pick(T)] + g[T \ {pick(T)}]]

\* A nonempty set loses one element, the one picked, and stays finite.
LEMMA PickRemoves ==
    ASSUME NEW S, IsFiniteSet(S), NEW T \in SUBSET S
    PROVE  /\ IsFiniteSet(T) /\ Cardinality(T) \in 0 .. Cardinality(S)
           /\ Cardinality(S) \in Nat
           /\ Cardinality(T) = 0 <=> T = {}
           /\ T # {} => pick(T) \in T
           /\ \A x \in T : Cardinality(T \ {x}) = Cardinality(T) - 1
<1>1. IsFiniteSet(T) /\ Cardinality(T) <= Cardinality(S)
  BY FS_Subset
<1>2. Cardinality(T) \in Nat /\ Cardinality(S) \in Nat
  BY <1>1, FS_CardinalityType
<1>3. Cardinality(T) = 0 <=> T = {}
  BY <1>1, FS_EmptySet
<1>4. T # {} => pick(T) \in T
  BY DEF pick
<1>5. \A x \in T : Cardinality(T \ {x}) = Cardinality(T) - 1
  BY <1>1, FS_RemoveElement
<1>6. QED
  BY <1>1, <1>2, <1>3, <1>4, <1>5

\* There is such a function,
LEMMA SumFunctionExists ==
    ASSUME NEW S, IsFiniteSet(S), NEW f, \A n \in S : f[n] \in Int
    PROVE  \E g \in [SUBSET S -> Int] : IsSum(g, f, S)
<1> DEFINE D == SUBSET S
<1> DEFINE V == Int
<1> DEFINE K == Cardinality(S)
<1> DEFINE stop == {{}}
<1> DEFINE m == [T \in D |-> Cardinality(T)]
<1> DEFINE base == [T \in D |-> 0]
<1> DEFINE next == [T \in D |-> T \ {pick(T)}]
<1> DEFINE comb == [x \in D \X Int |-> IF x[1] = {} THEN 0 ELSE f[pick(x[1])] + x[2]]
<1>1. K \in Nat /\ m \in [D -> 0 .. K]
  BY PickRemoves
<1>2. base \in [D -> V] /\ next \in [D -> D] /\ comb \in [D \X V -> V]
  BY PickRemoves
<1>3. ASSUME NEW T \in D, T \notin stop PROVE m[next[T]] < m[T]
  <2>1. Cardinality(T) \in Nat /\ Cardinality(T \ {pick(T)}) = Cardinality(T) - 1
    BY <1>3, PickRemoves
  <2>2. m[T] = Cardinality(T) /\ m[next[T]] = Cardinality(T \ {pick(T)})
    OBVIOUS
  <2>3. QED
    BY <2>1, <2>2
<1>4. PICK g : Computes(g, D, V, stop, base, next, comb)
  <2> HIDE DEF D, V, K, stop, m, base, next, comb
  <2>1. Terminates(D, V, K, m, stop, base, next, comb)
    BY <1>1, <1>2, <1>3 DEF Terminates
  <2>2. QED
    BY <2>1, RecursionExists
<1>5. ASSUME NEW T \in SUBSET S
      PROVE  g[T] = IF T = {} THEN 0 ELSE f[pick(T)] + g[T \ {pick(T)}]
  <2>1. CASE T = {}
    BY <1>4, <2>1 DEF Computes
  <2>2. CASE T # {}
    <3>1. T \ {pick(T)} \in D /\ next[T] = T \ {pick(T)}
      OBVIOUS
    <3>2. <<T, g[next[T]]>> \in D \X Int
      BY <1>4, <3>1 DEF Computes
    <3>3. g[T] = comb[<<T, g[next[T]]>>]
      BY <1>4, <2>2 DEF Computes
    <3>4. comb[<<T, g[next[T]]>>] = f[pick(T)] + g[next[T]]
      BY <2>2, <3>2
    <3>5. QED
      BY <2>2, <3>1, <3>3, <3>4
  <2>3. QED
    BY <2>1, <2>2
<1>6. g \in [SUBSET S -> Int]
  BY <1>4 DEF Computes
<1>7. QED
  BY <1>5, <1>6 DEF IsSum

\* and only one.
LEMMA SumUnique ==
    ASSUME NEW S, IsFiniteSet(S), NEW R \in SUBSET S, NEW f, NEW g, NEW h,
           IsSum(g, f, S), IsSum(h, f, R)
    PROVE  \A T \in SUBSET R : g[T] = h[T]
<1> DEFINE A == {n \in Nat : \A T \in SUBSET R : Cardinality(T) = n => g[T] = h[T]}
<1>1. \A T \in SUBSET R : T \in SUBSET S
  OBVIOUS
<1>2. ASSUME NEW T \in SUBSET R
      PROVE  /\ g[T] = IF T = {} THEN 0 ELSE f[pick(T)] + g[T \ {pick(T)}]
             /\ h[T] = IF T = {} THEN 0 ELSE f[pick(T)] + h[T \ {pick(T)}]
  <2> DEFINE G == [U \in SUBSET S |-> IF U = {} THEN 0 ELSE f[pick(U)] + g[U \ {pick(U)}]]
  <2> DEFINE H == [U \in SUBSET R |-> IF U = {} THEN 0 ELSE f[pick(U)] + h[U \ {pick(U)}]]
  <2>1. g = G /\ h = H
    BY DEF IsSum
  <2>2. /\ G[T] = IF T = {} THEN 0 ELSE f[pick(T)] + g[T \ {pick(T)}]
        /\ H[T] = IF T = {} THEN 0 ELSE f[pick(T)] + h[T \ {pick(T)}]
    BY <1>1
  <2>3. g[T] = G[T] /\ h[T] = H[T]
    <3> HIDE DEF G, H
    <3>1. QED
      BY <2>1
  <2>4. QED
    BY <2>2, <2>3
<1>3. 0 \in A
  BY <1>1, <1>2, PickRemoves
<1>4. ASSUME NEW n \in Nat, n \in A PROVE n + 1 \in A
  <2>1. SUFFICES ASSUME NEW T \in SUBSET R, Cardinality(T) = n + 1 PROVE g[T] = h[T]
    OBVIOUS
  <2>2. T # {} /\ pick(T) \in T /\ Cardinality(T \ {pick(T)}) = n
    BY <1>1, <2>1, PickRemoves
  <2>3. g[T \ {pick(T)}] = h[T \ {pick(T)}]
    BY <1>4, <2>2
  <2>4. QED
    BY <1>2, <2>2, <2>3
<1>5. Nat \subseteq A
  <2> HIDE DEF A
  <2>1. QED
    BY <1>3, <1>4, NatInductionSet
<1>6. QED
  BY <1>1, <1>5, PickRemoves

\* Sum is its value,
LEMMA SumOf ==
    ASSUME NEW S, IsFiniteSet(S), NEW f, \A n \in S : f[n] \in Int
    PROVE  \E g \in [SUBSET S -> Int] :
              IsSum(g, f, S) /\ \A T \in SUBSET S : g[T] = Sum(f, T)
<1>1. PICK g \in [SUBSET S -> Int] : IsSum(g, f, S)
  BY SumFunctionExists
<1>2. ASSUME NEW T \in SUBSET S PROVE g[T] = Sum(f, T)
  <2> DEFINE it == CHOOSE h : IsSum(h, f, T)
  <2>1. IsFiniteSet(T) /\ \A n \in T : f[n] \in Int
    BY PickRemoves
  <2>2. \E h : IsSum(h, f, T)
    BY <2>1, SumFunctionExists
  <2>3. IsSum(it, f, T)
    BY <2>2
  <2>4. g[T] = it[T]
    <3> HIDE DEF it
    <3>1. QED
      BY <1>1, <2>3, SumUnique
  <2>5. Sum(f, T) = it[T]
    BY DEF Sum, MapThenSumSet, MapThenFoldSet, IsSum, pick
  <2>6. QED
    BY <2>4, <2>5
<1>3. QED
  BY <1>1, <1>2

\* and satisfies its recursion.
LEMMA SumPick ==
    ASSUME NEW S, IsFiniteSet(S), NEW f, \A n \in S : f[n] \in Int
    PROVE  \A T \in SUBSET S :
              /\ Sum(f, T) \in Int
              /\ T = {} => Sum(f, T) = 0
              /\ T # {} => Sum(f, T) = f[pick(T)] + Sum(f, T \ {pick(T)})
<1>1. SUFFICES ASSUME NEW T \in SUBSET S
               PROVE  /\ Sum(f, T) \in Int
                      /\ T = {} => Sum(f, T) = 0
                      /\ T # {} => Sum(f, T) = f[pick(T)] + Sum(f, T \ {pick(T)})
  OBVIOUS
<1>2. PICK g \in [SUBSET S -> Int] : IsSum(g, f, S) /\ \A U \in SUBSET S : g[U] = Sum(f, U)
  BY SumOf
<1>3. g[T] = IF T = {} THEN 0 ELSE f[pick(T)] + g[T \ {pick(T)}]
  BY <1>2 DEF IsSum
<1>4. T \ {pick(T)} \in SUBSET S
  OBVIOUS
<1>5. g[T] = Sum(f, T) /\ g[T \ {pick(T)}] = Sum(f, T \ {pick(T)}) /\ g[T] \in Int
  BY <1>2, <1>4
<1>6. QED
  BY <1>3, <1>5

\* Nothing adds up to zero.
LEMMA SumEmpty == \A f : Sum(f, {}) = 0
<1>1. SUFFICES ASSUME NEW f PROVE Sum(f, {}) = 0
  OBVIOUS
<1>2. IsFiniteSet({}) /\ \A n \in {} : f[n] \in Int
  BY FS_EmptySet
<1>3. \A T \in SUBSET {} : T = {} => Sum(f, T) = 0
  BY <1>2, SumPick
<1>4. QED
  BY <1>3

\* A sum does not depend on the order of the elements.
LEMMA SumRemove ==
    ASSUME NEW S, IsFiniteSet(S), NEW f, \A n \in S : f[n] \in Int, NEW z \in S
    PROVE  Sum(f, S) = f[z] + Sum(f, S \ {z})
<1> DEFINE A == {n \in Nat : \A T \in SUBSET S : Cardinality(T) = n =>
                                \A x \in T : Sum(f, T) = f[x] + Sum(f, T \ {x})}
<1>1. 0 \in A
  BY PickRemoves
<1>2. ASSUME NEW n \in Nat, n \in A PROVE n + 1 \in A
  <2>1. SUFFICES ASSUME NEW T \in SUBSET S, Cardinality(T) = n + 1, NEW x \in T
                 PROVE  Sum(f, T) = f[x] + Sum(f, T \ {x})
    OBVIOUS
  <2> DEFINE p == pick(T)
  <2>2. p \in T /\ Sum(f, T) = f[p] + Sum(f, T \ {p})
    BY <2>1, PickRemoves, SumPick
  <2>3. CASE x = p
    BY <2>2, <2>3
  <2>4. CASE x # p
    <3>1. /\ T \ {p} \in SUBSET S /\ Cardinality(T \ {p}) = n
          /\ T \ {x} \in SUBSET S /\ Cardinality(T \ {x}) = n
      BY <2>1, <2>2, PickRemoves
    <3>2. x \in T \ {p} /\ p \in T \ {x} /\ (T \ {p}) \ {x} = (T \ {x}) \ {p}
      BY <2>2, <2>4
    <3>3. Sum(f, T \ {p}) = f[x] + Sum(f, (T \ {p}) \ {x})
      BY <1>2, <3>1, <3>2
    <3>4. Sum(f, T \ {x}) = f[p] + Sum(f, (T \ {x}) \ {p})
      BY <1>2, <3>1, <3>2
    <3>5. f[x] \in Int /\ f[p] \in Int /\ Sum(f, (T \ {p}) \ {x}) \in Int
      BY <2>2, SumPick
    <3>6. Sum(f, (T \ {p}) \ {x}) = Sum(f, (T \ {x}) \ {p})
      BY <3>2
    <3> HIDE DEF p
    <3>7. QED
      BY <2>2, <3>3, <3>4, <3>5, <3>6
  <2>5. QED
    BY <2>3, <2>4
<1>3. Nat \subseteq A
  <2> HIDE DEF A
  <2>1. QED
    BY <1>1, <1>2, NatInductionSet
<1>4. S \in SUBSET S /\ Cardinality(S) \in A
  BY <1>3, PickRemoves
<1>5. QED
  BY <1>4

\* An element more adds its value.
LEMMA SumAdd ==
    ASSUME NEW S, IsFiniteSet(S), NEW f, \A n \in S : f[n] \in Int,
           NEW T \in SUBSET S, NEW x \in S, x \notin T
    PROVE  Sum(f, T \union {x}) = f[x] + Sum(f, T)
<1> DEFINE U == T \union {x}
<1>1. U \in SUBSET S /\ x \in U /\ U \ {x} = T
  OBVIOUS
<1>2. IsFiniteSet(U) /\ \A n \in U : f[n] \in Int
  BY <1>1, FS_Subset
<1> HIDE DEF U
<1>3. Sum(f, U) = f[x] + Sum(f, U \ {x})
  BY <1>1, <1>2, SumRemove
<1>4. QED
  BY <1>1, <1>3 DEF U

\* Sums are monotonic and additive.
LEMMA SumMonotonic ==
    ASSUME NEW S, IsFiniteSet(S), NEW f, NEW g,
           \A n \in S : f[n] \in Int /\ g[n] \in Int /\ f[n] <= g[n]
    PROVE  Sum(f, S) <= Sum(g, S)
<1> DEFINE A == {T \in SUBSET S : Sum(f, T) <= Sum(g, T)}
<1>1. {} \in A
  BY SumEmpty
<1>2. ASSUME NEW T \in SUBSET S, NEW x \in S, T \in A, x \notin T PROVE T \union {x} \in A
  <2>1. Sum(f, T \union {x}) = f[x] + Sum(f, T) /\ Sum(g, T \union {x}) = g[x] + Sum(g, T)
    BY <1>2, SumAdd
  <2>2. Sum(f, T) \in Int /\ Sum(g, T) \in Int
    BY SumPick
  <2>3. QED
    BY <1>2, <2>1, <2>2
<1>3. S \in A
  <2> HIDE DEF A
  <2>1. QED
    BY <1>1, <1>2, FiniteSetInductionSet
<1>4. QED
  BY <1>3

\* The sum of two functions is the sum of their sums.
LEMMA SumOfSums ==
    ASSUME NEW S, IsFiniteSet(S), NEW f, NEW g, NEW h,
           \A n \in S : f[n] \in Int /\ g[n] \in Int /\ h[n] = f[n] + g[n]
    PROVE  Sum(h, S) = Sum(f, S) + Sum(g, S)
<1> DEFINE A == {T \in SUBSET S : Sum(h, T) = Sum(f, T) + Sum(g, T)}
<1>0. \A n \in S : h[n] \in Int
  OBVIOUS
<1>1. {} \in A
  BY SumEmpty
<1>2. ASSUME NEW T \in SUBSET S, NEW x \in S, T \in A, x \notin T PROVE T \union {x} \in A
  <2>1. /\ Sum(f, T \union {x}) = f[x] + Sum(f, T)
        /\ Sum(g, T \union {x}) = g[x] + Sum(g, T)
        /\ Sum(h, T \union {x}) = h[x] + Sum(h, T)
    BY <1>0, <1>2, SumAdd
  <2>2. Sum(f, T) \in Int /\ Sum(g, T) \in Int
    BY SumPick
  <2>3. QED
    BY <1>2, <2>1, <2>2
<1>3. S \in A
  <2> HIDE DEF A
  <2>1. QED
    BY <1>1, <1>2, FiniteSetInductionSet
<1>4. QED
  BY <1>3

\* What an integer division leaves.
LEMMA DivisionFacts ==
    ASSUME NEW a \in Nat, NEW b \in Nat, b > 0
    PROVE  /\ a \div b \in Nat /\ a % b \in Nat /\ a % b < b
           /\ a = b * (a \div b) + (a % b)
OBVIOUS

\* A sum depends on the values in its set only.
LEMMA SumCongruent ==
    ASSUME NEW S, IsFiniteSet(S), NEW f, NEW g,
           \A n \in S : f[n] \in Int /\ g[n] = f[n]
    PROVE  Sum(f, S) = Sum(g, S)
<1>1. Sum(f, S) <= Sum(g, S) /\ Sum(g, S) <= Sum(f, S)
  BY SumMonotonic
<1>2. Sum(f, S) \in Int /\ Sum(g, S) \in Int
  BY SumPick
<1>3. QED
  BY <1>1, <1>2

\* A nonempty finite set of numbers has a greatest element.
LEMMA GreatestNatural ==
    ASSUME NEW S, IsFiniteSet(S), S \subseteq Nat
    PROVE  S # {} => \E x \in S : \A y \in S : y <= x
<1> DEFINE A == {T \in SUBSET S : T # {} => \E x \in T : \A y \in T : y <= x}
<1>1. {} \in A
  OBVIOUS
<1>2. ASSUME NEW T \in SUBSET S, NEW x \in S, T \in A, x \notin T PROVE T \union {x} \in A
  <2>1. CASE T = {}
    BY <2>1
  <2>2. CASE T # {}
    <3>1. PICK z \in T : \A y \in T : y <= z
      BY <1>2, <2>2
    <3>2. CASE x <= z
      <4>1. z \in T \union {x} /\ \A y \in T \union {x} : y <= z
        BY <3>1, <3>2
      <4>2. QED
        BY <4>1
    <3>3. CASE ~(x <= z)
      <4>1. x \in Nat /\ z \in Nat /\ \A y \in T : y \in Nat
        OBVIOUS
      <4>2. \A y \in T \union {x} : y <= x
        BY <3>1, <3>3, <4>1
      <4>3. QED
        BY <4>2
    <3>4. QED
      BY <3>2, <3>3
  <2>3. QED
    BY <2>1, <2>2
<1>3. S \in A
  <2> HIDE DEF A
  <2>1. QED
    BY <1>1, <1>2, FiniteSetInductionSet
<1>4. QED
  BY <1>3

\* What a node of E gets in a cycle that does not look at the room: q each, and one
\* more for the first r.
Nominal(E, q, r) ==
    [n \in E |-> q + (IF Cardinality({m \in E : m <= n}) <= r THEN 1 ELSE 0)]

\* These are numbers,
LEMMA NominalType ==
    ASSUME NEW E, IsFiniteSet(E), NEW q \in Nat, NEW r \in Nat
    PROVE  Nominal(E, q, r) \in [E -> Nat]
BY DEF Nominal

\* and they add up to what is divided.
LEMMA NominalSum ==
    ASSUME NEW E, IsFiniteSet(E), E \subseteq Nat, NEW q \in Nat, NEW r \in Nat
    PROVE  Sum(Nominal(E, q, r), E) =
              q * Cardinality(E) + (IF Cardinality(E) <= r THEN Cardinality(E) ELSE r)
<1> DEFINE total(k) == q * k + (IF k <= r THEN k ELSE r)
<1> DEFINE A == {k \in Nat : \A T \in SUBSET E :
                    Cardinality(T) = k => Sum(Nominal(T, q, r), T) = total(k)}
<1>1. 0 \in A
  <2>1. \A T \in SUBSET E : Cardinality(T) = 0 => T = {}
    BY PickRemoves
  <2>2. total(0) = 0
    OBVIOUS
  <2>3. QED
    BY <2>1, <2>2, SumEmpty
<1>2. ASSUME NEW k \in Nat, k \in A PROVE k + 1 \in A
  <2>1. SUFFICES ASSUME NEW T \in SUBSET E, Cardinality(T) = k + 1
                 PROVE  Sum(Nominal(T, q, r), T) = total(k + 1)
    OBVIOUS
  <2>2. IsFiniteSet(T) /\ T # {}
    <3>1. IsFiniteSet(T) /\ (Cardinality(T) = 0 <=> T = {})
      BY PickRemoves
    <3>2. QED
      BY <2>1, <3>1
  <2>3. PICK x \in T : \A y \in T : y <= x
    BY <2>2, GreatestNatural
  <2> DEFINE U == T \ {x}
  <2>4. U \in SUBSET E /\ IsFiniteSet(U) /\ Cardinality(U) = k
    <3>1. U \in SUBSET E
      OBVIOUS
    <3>2. Cardinality(U) = Cardinality(T) - 1
      BY PickRemoves
    <3>3. IsFiniteSet(U)
      <4> HIDE DEF U
      <4>1. QED
        BY <3>1, PickRemoves
    <3>4. QED
      BY <2>1, <3>1, <3>2, <3>3
  <2>5. ASSUME NEW n \in U PROVE Nominal(T, q, r)[n] = Nominal(U, q, r)[n]
    <3>1. n \in Nat /\ x \in Nat /\ ~(x <= n)
      BY <2>3
    <3>2. {m \in T : m <= n} = {m \in U : m <= n}
      BY <3>1
    <3>3. QED
      BY <3>2 DEF Nominal
  <2>6. Nominal(T, q, r)[x] = q + (IF k + 1 <= r THEN 1 ELSE 0)
    <3>1. {m \in T : m <= x} = T
      BY <2>3
    <3>2. QED
      BY <2>1, <3>1 DEF Nominal
  <2>7. Sum(Nominal(U, q, r), U) = total(k)
    BY <1>2, <2>4
  <2>8. Sum(Nominal(T, q, r), U) = total(k)
    <3> HIDE DEF U
    <3>1. Nominal(U, q, r) \in [U -> Nat]
      BY <2>4, NominalType
    <3>2. \A n \in U : Nominal(U, q, r)[n] \in Int /\ Nominal(T, q, r)[n] = Nominal(U, q, r)[n]
      BY <2>5, <3>1
    <3>3. QED
      BY <2>4, <2>7, <3>2, SumCongruent
  <2>9. Sum(Nominal(T, q, r), T) = Nominal(T, q, r)[x] + Sum(Nominal(T, q, r), U)
    <3>1. ASSUME NEW f, \A n \in T : f[n] \in Int PROVE Sum(f, T) = f[x] + Sum(f, T \ {x})
      BY <2>2, <3>1, SumRemove
    <3>2. \A n \in T : Nominal(T, q, r)[n] \in Int
      BY <2>2, NominalType
    <3>3. QED
      BY <3>1, <3>2
  <2>10. q * (k + 1) = q * k + q /\ q * k \in Nat
    OBVIOUS
  <2>11. QED
    BY <2>6, <2>8, <2>9, <2>10
<1>3. Nat \subseteq A
  <2> HIDE DEF A
  <2>1. QED
    BY <1>1, <1>2, NatInductionSet
<1>4. Cardinality(E) \in A /\ E \in SUBSET E
  BY <1>3, PickRemoves
<1>5. QED
  BY <1>4

\* The smaller of two numbers.
LEMMA MinOfTwo ==
    ASSUME NEW a \in Int, NEW b \in Int
    PROVE  Min({a, b}) = IF a <= b THEN a ELSE b
<1>1. CASE a <= b
  <2>1. \A x \in {a, b} : (\A y \in {a, b} : x <= y) <=> x = a
    BY <1>1
  <2>2. QED
    BY <1>1, <2>1 DEF Min
<1>2. CASE ~(a <= b)
  <2>1. \A x \in {a, b} : (\A y \in {a, b} : x <= y) <=> x = b
    BY <1>2
  <2>2. QED
    BY <1>2, <2>1 DEF Min
<1>3. QED
  BY <1>1, <1>2

\* A cycle of distributeQuotas gives no node more than it has room for and all
\* nodes together no more than is left; what is left it gives away unless a node is
\* full, no node gets ahead of one that is not full by more than a unit, and none that
\* is not full goes without if there is a unit for each.
LEMMA PassGives ==
    ASSUME NEW E, IsFiniteSet(E), E \subseteq Nat, E # {},
           NEW room \in [E -> Int], NEW left \in Nat
    PROVE  LET more == Pass(room, left)
           IN /\ more \in [E -> Int]
              /\ Sum(more, E) \in Int /\ Sum(more, E) <= left
              /\ (\A n \in E : more[n] < room[n]) => Sum(more, E) = left
              /\ \A n \in E : more[n] <= room[n] /\ (more[n] >= 0 \/ more[n] = room[n])
              /\ \A n \in E : more[n] < room[n] =>
                    more[n] >= 0 /\ \A m \in E : more[m] <= more[n] + 1
              /\ left >= Cardinality(E) => \A n \in E : more[n] >= 1 \/ more[n] = room[n]
<1> DEFINE count == Cardinality(E)
<1> DEFINE q == left \div count
<1> DEFINE r == left % count
<1> DEFINE N == Nominal(E, q, r)
<1> DEFINE more == Pass(room, left)
<1>1. count \in Nat /\ count > 0
  <2>1. Cardinality(E) \in Nat
    BY FS_CardinalityType
  <2>2. Cardinality(E) # 0
    BY FS_EmptySet
  <2>3. QED
    BY <2>1, <2>2
<1>2. q \in Nat /\ r \in Nat /\ r < count /\ left = count * q + r
  <2> HIDE DEF count
  <2>1. QED
    BY <1>1, DivisionFacts
<1>3. N \in [E -> Nat] /\ \A n \in E : N[n] = q \/ N[n] = q + 1
  <2> HIDE DEF q, r, count
  <2>1. N \in [E -> Nat]
    BY <1>2, NominalType
  <2>2. \A n \in E : N[n] = q \/ N[n] = q + 1
    BY <1>2 DEF Nominal
  <2>3. QED
    BY <2>1, <2>2
<1>4. Sum(N, E) = left
  <2> HIDE DEF q, r, N
  <2>1. Sum(N, E) = q * count + (IF count <= r THEN count ELSE r)
    BY <1>2, NominalSum DEF N
  <2>2. q * count = count * q
    BY <1>1, <1>2
  <2> HIDE DEF count
  <2>3. QED
    BY <1>1, <1>2, <2>1, <2>2
<1>5. more = [n \in E |-> Min({N[n], room[n]})]
  <2>1. DOMAIN room = E
    OBVIOUS
  <2>2. QED
    BY <2>1 DEF Pass, Nominal
<1> HIDE DEF N, q, r, count, more
<1>6. \A n \in E : N[n] \in Nat /\ room[n] \in Int
  BY <1>3
<1>7. \A n \in E : more[n] = IF N[n] <= room[n] THEN N[n] ELSE room[n]
  BY <1>5, <1>6, MinOfTwo
<1>8. more \in [E -> Int]
  <2>1. \A n \in E : more[n] \in Int
    BY <1>6, <1>7
  <2>2. QED
    BY <1>5, <2>1
<1>9. Sum(more, E) \in Int /\ Sum(more, E) <= left
  <2>1. \A n \in E : more[n] \in Int /\ N[n] \in Int /\ more[n] <= N[n]
    BY <1>6, <1>7
  <2>2. Sum(more, E) <= Sum(N, E)
    BY <2>1, SumMonotonic
  <2>3. Sum(more, E) \in Int
    BY <2>1, SumPick
  <2>4. QED
    BY <1>4, <2>2, <2>3
<1>10. ASSUME \A n \in E : more[n] < room[n] PROVE Sum(more, E) = left
  <2>1. \A n \in E : N[n] \in Int /\ more[n] = N[n]
    BY <1>6, <1>7, <1>10
  <2>2. Sum(N, E) = Sum(more, E)
    BY <2>1, SumCongruent
  <2>3. QED
    BY <1>4, <2>2
<1>11. \A n \in E : more[n] <= room[n] /\ (more[n] >= 0 \/ more[n] = room[n])
  BY <1>6, <1>7
<1>12. ASSUME NEW n \in E, more[n] < room[n]
       PROVE  more[n] >= 0 /\ \A m \in E : more[m] <= more[n] + 1
  <2>1. more[n] = N[n] /\ N[n] >= q /\ N[n] \in Nat
    BY <1>2, <1>3, <1>6, <1>7, <1>12
  <2>2. \A m \in E : more[m] <= q + 1 /\ more[m] \in Int
    BY <1>2, <1>3, <1>6, <1>7
  <2>3. QED
    BY <1>2, <2>1, <2>2
<1>13. ASSUME left >= count, NEW n \in E PROVE more[n] >= 1 \/ more[n] = room[n]
  <2>1. q # 0
    <3>1. count * 0 = 0
      BY <1>1
    <3>2. QED
      BY <1>1, <1>2, <1>13, <3>1
  <2>2. N[n] >= 1
    BY <1>2, <1>3, <2>1
  <2>3. QED
    BY <1>6, <1>7, <2>2
<1>14. left >= Cardinality(E) => \A n \in E : more[n] >= 1 \/ more[n] = room[n]
  BY <1>13 DEF count
<1>15. QED
  BY <1>8, <1>9, <1>10, <1>11, <1>12, <1>14 DEF more

\* The first cycle starts from nothing given.
Start(cap, total) ==
    [given |-> [n \in DOMAIN cap |-> 0], left |-> total, eligible |-> DOMAIN cap]

IsLoop(g, cap) ==
    g = [d \in Distribution(cap) |->
            IF d.left = 0 \/ d.eligible = {} THEN d.given ELSE g[Cycle(cap, d)]]

\* Shares is the value of the loop's function at the first cycle.
LEMMA SharesLoop ==
    ASSUME NEW cap, NEW total
    PROVE  Shares(cap, total) = (CHOOSE g : IsLoop(g, cap))[Start(cap, total)]
BY DEF Shares, IsLoop, Start

\* What a host node can have of a resource, for finitely many nodes.
IsCap(cap) ==
    /\ IsFiniteSet(DOMAIN cap) /\ DOMAIN cap \subseteq Nat
    /\ cap \in [DOMAIN cap -> Nat]

\* A cycle of the loop in terms of what it gives.
LEMMA CycleGives ==
    ASSUME NEW cap, IsCap(cap), NEW d \in Distribution(cap), d.eligible # {}
    PROVE  \E more \in [d.eligible -> Int] :
              /\ Cycle(cap, d) =
                    [given    |-> [n \in DOMAIN cap |->
                                      d.given[n] + (IF n \in d.eligible THEN more[n] ELSE 0)],
                     left     |-> d.left - Sum(more, d.eligible),
                     eligible |-> {n \in d.eligible : d.given[n] + more[n] < cap[n]}]
              /\ Sum(more, d.eligible) \in Int /\ Sum(more, d.eligible) <= d.left
              /\ \A n \in d.eligible :
                    /\ d.given[n] + more[n] <= cap[n]
                    /\ more[n] >= 0 \/ d.given[n] + more[n] = cap[n]
              /\ (\A n \in d.eligible : d.given[n] + more[n] < cap[n])
                    => Sum(more, d.eligible) = d.left
              /\ \A n \in d.eligible : d.given[n] + more[n] < cap[n] =>
                    more[n] >= 0 /\ \A m \in d.eligible : more[m] <= more[n] + 1
              /\ d.left >= Cardinality(d.eligible) =>
                    \A n \in d.eligible : more[n] >= 1 \/ d.given[n] + more[n] = cap[n]
<1> DEFINE H == DOMAIN cap
<1> DEFINE E == d.eligible
<1> DEFINE room == [n \in E |-> cap[n] - d.given[n]]
<1> DEFINE more == Pass(room, d.left)
<1>0. IsFiniteSet(H) /\ H \subseteq Nat /\ cap \in [H -> Nat]
  BY DEF IsCap
<1>1. d.given \in [H -> Nat] /\ d.left \in Nat /\ E \in SUBSET H
  BY DEF Distribution
<1>2. IsFiniteSet(E) /\ E \subseteq Nat /\ E # {}
  BY <1>0, <1>1, FS_Subset
<1>3. room \in [E -> Int]
  BY <1>0, <1>1
<1>4. /\ more \in [E -> Int]
      /\ Sum(more, E) \in Int /\ Sum(more, E) <= d.left
      /\ (\A n \in E : more[n] < room[n]) => Sum(more, E) = d.left
      /\ \A n \in E : more[n] <= room[n] /\ (more[n] >= 0 \/ more[n] = room[n])
      /\ \A n \in E : more[n] < room[n] =>
            more[n] >= 0 /\ \A m \in E : more[m] <= more[n] + 1
      /\ d.left >= Cardinality(E) => \A n \in E : more[n] >= 1 \/ more[n] = room[n]
  <2> HIDE DEF room, E
  <2>1. QED
    BY <1>1, <1>2, <1>3, PassGives
<1>5. Cycle(cap, d) =
         [given    |-> [n \in H |-> d.given[n] + (IF n \in E THEN more[n] ELSE 0)],
          left     |-> d.left - Sum(more, E),
          eligible |-> {n \in E : d.given[n] + more[n] < cap[n]}]
  BY DEF Cycle
<1> HIDE DEF more
<1>6. \A n \in E : room[n] = cap[n] - d.given[n] /\ cap[n] \in Nat /\ d.given[n] \in Nat
  BY <1>0, <1>1
<1> HIDE DEF room
<1>7. \A n \in E : /\ more[n] <= room[n] <=> d.given[n] + more[n] <= cap[n]
                   /\ more[n] < room[n] <=> d.given[n] + more[n] < cap[n]
                   /\ more[n] = room[n] <=> d.given[n] + more[n] = cap[n]
  BY <1>4, <1>6
<1>8. /\ \A n \in E : /\ d.given[n] + more[n] <= cap[n]
                      /\ more[n] >= 0 \/ d.given[n] + more[n] = cap[n]
      /\ (\A n \in E : d.given[n] + more[n] < cap[n]) => Sum(more, E) = d.left
      /\ \A n \in E : d.given[n] + more[n] < cap[n] =>
            more[n] >= 0 /\ \A m \in E : more[m] <= more[n] + 1
      /\ d.left >= Cardinality(E) =>
            \A n \in E : more[n] >= 1 \/ d.given[n] + more[n] = cap[n]
  BY <1>4, <1>7
<1>9. QED
  BY <1>4, <1>5, <1>8

\* As long as something is left, a cycle leaves fewer nodes eligible.
LEMMA CycleStep ==
    ASSUME NEW cap, IsCap(cap), NEW d \in Distribution(cap), d.eligible # {}
    PROVE  LET c == Cycle(cap, d)
           IN /\ c \in Distribution(cap)
              /\ c.eligible \subseteq d.eligible
              /\ Cardinality(d.eligible) \in Nat /\ Cardinality(c.eligible) \in Nat
              /\ Cardinality(d.eligible) > 0
              /\ c.left # 0 => Cardinality(c.eligible) < Cardinality(d.eligible)
<1> DEFINE H == DOMAIN cap
<1> DEFINE E == d.eligible
<1>1. PICK more \in [E -> Int] :
         /\ Cycle(cap, d) =
               [given    |-> [n \in H |-> d.given[n] + (IF n \in E THEN more[n] ELSE 0)],
                left     |-> d.left - Sum(more, E),
                eligible |-> {n \in E : d.given[n] + more[n] < cap[n]}]
         /\ Sum(more, E) \in Int /\ Sum(more, E) <= d.left
         /\ \A n \in E : /\ d.given[n] + more[n] <= cap[n]
                         /\ more[n] >= 0 \/ d.given[n] + more[n] = cap[n]
         /\ (\A n \in E : d.given[n] + more[n] < cap[n]) => Sum(more, E) = d.left
  BY CycleGives
<1> DEFINE given == [n \in H |-> d.given[n] + (IF n \in E THEN more[n] ELSE 0)]
<1> DEFINE left == d.left - Sum(more, E)
<1> DEFINE F == {n \in E : d.given[n] + more[n] < cap[n]}
<1>2. IsFiniteSet(H) /\ cap \in [H -> Nat]
  BY DEF IsCap
<1>3. d.given \in [H -> Nat] /\ d.left \in Nat /\ E \in SUBSET H
  BY DEF Distribution
<1>4. \A n \in E : more[n] \in Int /\ d.given[n] \in Nat /\ cap[n] \in Nat
  BY <1>2, <1>3
<1>5. \A n \in E : d.given[n] + more[n] \in Nat
  BY <1>1, <1>4
<1>6. given \in [H -> Nat]
  BY <1>3, <1>5
<1>7. left \in Nat
  BY <1>1, <1>3
<1>8. F \subseteq E /\ F \in SUBSET H
  BY <1>3
<1>9. IsFiniteSet(E) /\ Cardinality(E) \in Nat /\ Cardinality(E) > 0
  <2>1. IsFiniteSet(E) /\ Cardinality(E) \in Nat
    BY <1>2, <1>3, FS_Subset, FS_CardinalityType
  <2>2. Cardinality(E) # 0
    BY <2>1, FS_EmptySet
  <2>3. QED
    BY <2>1, <2>2
<1>10. Cardinality(F) \in Nat /\ (F # E => Cardinality(F) < Cardinality(E))
  <2> HIDE DEF F, E
  <2>1. IsFiniteSet(F) /\ Cardinality(F) <= Cardinality(E) /\ (Cardinality(E) = Cardinality(F) => E = F)
    BY <1>8, <1>9, FS_Subset
  <2>2. Cardinality(F) \in Nat
    BY <2>1, FS_CardinalityType
  <2>3. QED
    BY <1>9, <2>1, <2>2
<1>11. left # 0 => F # E
  <2>1. F = E => \A n \in E : d.given[n] + more[n] < cap[n]
    OBVIOUS
  <2>2. QED
    BY <1>1, <1>3, <2>1
<1> HIDE DEF given, left, F, E, H
<1>12. Cycle(cap, d) = [given |-> given, left |-> left, eligible |-> F]
  BY <1>1 DEF given, left, F
<1>13. [given |-> given, left |-> left, eligible |-> F] \in Distribution(cap)
  BY <1>6, <1>7, <1>8 DEF Distribution, H
<1>14. QED
  BY <1>8, <1>9, <1>10, <1>11, <1>12, <1>13 DEF E

\* The loop ends for every input: there is a function that computes it.
LEMMA LoopExists ==
    ASSUME NEW cap, IsCap(cap)
    PROVE  \E g : IsLoop(g, cap)
<1> DEFINE D == Distribution(cap)
<1> DEFINE V == [DOMAIN cap -> Nat]
<1> DEFINE K == Cardinality(DOMAIN cap)
<1> DEFINE stop == {d \in D : d.left = 0 \/ d.eligible = {}}
<1> DEFINE m == [d \in D |-> IF d.left = 0 THEN 0 ELSE Cardinality(d.eligible)]
<1> DEFINE base == [d \in D |-> d.given]
<1> DEFINE next == [d \in D |-> IF d \in stop THEN d ELSE Cycle(cap, d)]
<1> DEFINE comb == [x \in D \X V |-> x[2]]
<1>1. K \in Nat /\ m \in [D -> 0 .. K]
  <2>1. K \in Nat /\ IsFiniteSet(DOMAIN cap)
    BY PickRemoves DEF IsCap
  <2>2. ASSUME NEW d \in D PROVE Cardinality(d.eligible) \in 0 .. K
    <3>1. d.eligible \in SUBSET DOMAIN cap
      BY DEF Distribution
    <3>2. QED
      BY <2>1, <3>1, PickRemoves
  <2>3. QED
    BY <2>1, <2>2
<1>2. base \in [D -> V]
  BY DEF Distribution
<1>3. ASSUME NEW d \in D, d \notin stop
      PROVE  Cycle(cap, d) \in D /\ m[next[d]] < m[d]
  <2>1. d.left # 0 /\ d.eligible # {}
    BY <1>3
  <2>2. /\ Cycle(cap, d) \in D
        /\ Cardinality(d.eligible) \in Nat /\ Cardinality(Cycle(cap, d).eligible) \in Nat
        /\ Cardinality(d.eligible) > 0
        /\ Cycle(cap, d).left # 0 => Cardinality(Cycle(cap, d).eligible) < Cardinality(d.eligible)
    BY <2>1, CycleStep
  <2>3. next[d] = Cycle(cap, d) /\ m[d] = Cardinality(d.eligible)
    BY <1>3, <2>1
  <2>4. m[Cycle(cap, d)] = IF Cycle(cap, d).left = 0 THEN 0 ELSE Cardinality(Cycle(cap, d).eligible)
    BY <2>2
  <2>5. QED
    BY <2>2, <2>3, <2>4
<1>4. next \in [D -> D] /\ comb \in [D \X V -> V]
  BY <1>3
<1>5. PICK g : Computes(g, D, V, stop, base, next, comb)
  <2> HIDE DEF D, V, K, stop, m, base, next, comb
  <2>1. Terminates(D, V, K, m, stop, base, next, comb)
    BY <1>1, <1>2, <1>3, <1>4 DEF Terminates
  <2>2. QED
    BY <2>1, RecursionExists
<1>6. g \in [D -> V]
  BY <1>5 DEF Computes
<1>7. ASSUME NEW d \in D
      PROVE  g[d] = IF d.left = 0 \/ d.eligible = {} THEN d.given ELSE g[Cycle(cap, d)]
  <2>1. g[d] = IF d \in stop THEN base[d] ELSE comb[<<d, g[next[d]]>>]
    BY <1>5 DEF Computes
  <2>2. CASE d \in stop
    BY <2>1, <2>2
  <2>3. CASE d \notin stop
    <3>1. next[d] = Cycle(cap, d) /\ Cycle(cap, d) \in D
      BY <1>3, <2>3
    <3>2. g[Cycle(cap, d)] \in V
      BY <1>6, <3>1
    <3>3. comb[<<d, g[Cycle(cap, d)]>>] = g[Cycle(cap, d)]
      BY <3>2
    <3>4. QED
      BY <2>1, <2>3, <3>1, <3>3
  <2>4. QED
    BY <2>2, <2>3
<1>8. IsLoop(g, cap)
  BY <1>6, <1>7 DEF IsLoop
<1>9. QED
  BY <1>8

\* Values of zero add nothing.
LEMMA SumOfSupport ==
    ASSUME NEW S, IsFiniteSet(S), NEW E \in SUBSET S, NEW f,
           \A n \in S : f[n] \in Int, \A n \in S \ E : f[n] = 0
    PROVE  Sum(f, S) = Sum(f, E)
<1> DEFINE A == {T \in SUBSET S : Sum(f, T) = Sum(f, T \cap E)}
<1>1. {} \in A
  <2>1. {} \cap E = {}
    OBVIOUS
  <2>2. QED
    BY <2>1
<1>2. ASSUME NEW T \in SUBSET S, NEW x \in S, T \in A, x \notin T PROVE T \union {x} \in A
  <2>1. Sum(f, T \union {x}) = f[x] + Sum(f, T) /\ Sum(f, T) \in Int
    <3>1. Sum(f, T \union {x}) = f[x] + Sum(f, T)
      BY <1>2, SumAdd
    <3>2. Sum(f, T) \in Int
      BY SumPick
    <3>3. QED
      BY <3>1, <3>2
  <2>2. CASE x \in E
    <3>1. (T \union {x}) \cap E = (T \cap E) \union {x} /\ T \cap E \in SUBSET S /\ x \notin T \cap E
      BY <1>2, <2>2
    <3>2. Sum(f, (T \cap E) \union {x}) = f[x] + Sum(f, T \cap E)
      BY <3>1, SumAdd
    <3>3. QED
      BY <1>2, <2>1, <3>1, <3>2
  <2>3. CASE x \notin E
    <3>1. (T \union {x}) \cap E = T \cap E /\ f[x] = 0
      BY <2>3
    <3>2. Sum(f, T \union {x}) = Sum(f, T)
      BY <2>1, <3>1
    <3>3. Sum(f, T) = Sum(f, T \cap E)
      BY <1>2
    <3>4. Sum(f, T \union {x}) = Sum(f, (T \union {x}) \cap E)
      BY <3>1, <3>2, <3>3
    <3>5. QED
      BY <3>4
  <2>4. QED
    BY <2>2, <2>3
<1>3. S \in A
  <2> HIDE DEF A
  <2>1. QED
    BY <1>1, <1>2, FiniteSetInductionSet
<1>4. S \cap E = E
  OBVIOUS
<1>5. QED
  BY <1>3, <1>4

\* The invariant of the loop: nobody has more than its host node, those no longer
\* eligible have all of it, what is given and what is left add up to the quota, and
\* nobody is ahead of an eligible node by more than a unit for each node that
\* dropped out or, once nothing is left, for each node. If the quota has a unit for
\* each, then after the first cycle nobody is without who has something to give.
Served(cap, d) ==
    \/ \A n \in DOMAIN cap : cap[n] > 0 => d.given[n] > 0
    \/ d.eligible = DOMAIN cap /\ \A n \in DOMAIN cap : d.given[n] = 0

GoodDistribution(cap, total, d) ==
    /\ d \in Distribution(cap)
    /\ \A n \in DOMAIN cap : d.given[n] <= cap[n]
    /\ \A n \in DOMAIN cap \ d.eligible : d.given[n] = cap[n]
    /\ Sum(d.given, DOMAIN cap) + d.left = total
    /\ \A n \in d.eligible, m \in DOMAIN cap :
          d.given[m] <= d.given[n] + (IF d.left = 0 THEN Cardinality(DOMAIN cap)
                                      ELSE Cardinality(DOMAIN cap) - Cardinality(d.eligible))
    /\ total >= Cardinality(DOMAIN cap) => Served(cap, d)

\* The invariant holds before the first cycle,
LEMMA GoodStart ==
    ASSUME NEW cap, IsCap(cap), NEW total \in Nat
    PROVE  GoodDistribution(cap, total, Start(cap, total))
<1> DEFINE H == DOMAIN cap
<1> DEFINE zero == [n \in H |-> 0]
<1>1. IsFiniteSet(H) /\ Cardinality(H) \in Nat /\ cap \in [H -> Nat]
  BY FS_CardinalityType DEF IsCap
<1>2. Sum(zero, H) = 0
  <2> HIDE DEF H
  <2>1. /\ {} \in SUBSET H
        /\ \A n \in H : zero[n] \in Int
        /\ \A n \in H \ {} : zero[n] = 0
    OBVIOUS
  <2> HIDE DEF zero
  <2>2. Sum(zero, H) = Sum(zero, {})
    BY <1>1, <2>1, SumOfSupport
  <2>3. QED
    BY <2>2, SumEmpty
<1>3. Start(cap, total) \in Distribution(cap)
  BY DEF Start, Distribution
<1>4. /\ Start(cap, total).given = zero /\ Start(cap, total).left = total
      /\ Start(cap, total).eligible = H
  BY DEF Start
<1>5. \A n \in H : zero[n] = 0 /\ cap[n] \in Nat
  BY <1>1
<1> HIDE DEF zero
<1>6. Served(cap, Start(cap, total))
  BY <1>4, <1>5 DEF Served
<1>7. QED
  BY <1>1, <1>2, <1>3, <1>4, <1>5, <1>6 DEF GoodDistribution

\* every cycle keeps it,
LEMMA GoodCycle ==
    ASSUME NEW cap, IsCap(cap), NEW total \in Nat, NEW d,
           GoodDistribution(cap, total, d), d.left # 0, d.eligible # {}
    PROVE  GoodDistribution(cap, total, Cycle(cap, d))
<1> DEFINE H == DOMAIN cap
<1> DEFINE E == d.eligible
<1>0. d \in Distribution(cap)
  BY DEF GoodDistribution
<1>1. PICK more \in [E -> Int] :
         /\ Cycle(cap, d) =
               [given    |-> [n \in H |-> d.given[n] + (IF n \in E THEN more[n] ELSE 0)],
                left     |-> d.left - Sum(more, E),
                eligible |-> {n \in E : d.given[n] + more[n] < cap[n]}]
         /\ Sum(more, E) \in Int /\ Sum(more, E) <= d.left
         /\ \A n \in E : d.given[n] + more[n] <= cap[n]
         /\ \A n \in E : d.given[n] + more[n] < cap[n] =>
               more[n] >= 0 /\ \A m \in E : more[m] <= more[n] + 1
         /\ d.left >= Cardinality(E) =>
               \A n \in E : more[n] >= 1 \/ d.given[n] + more[n] = cap[n]
  BY <1>0, CycleGives
<1> DEFINE c == Cycle(cap, d)
<1> DEFINE inc == [n \in H |-> IF n \in E THEN more[n] ELSE 0]
<1>2. IsFiniteSet(H) /\ Cardinality(H) \in Nat /\ cap \in [H -> Nat]
  BY FS_CardinalityType DEF IsCap
<1>3. d.given \in [H -> Nat] /\ d.left \in Nat /\ E \in SUBSET H
  BY <1>0 DEF Distribution
<1>4. /\ c \in Distribution(cap)
      /\ Cardinality(E) \in Nat /\ Cardinality(c.eligible) \in Nat /\ Cardinality(E) > 0
      /\ c.left # 0 => Cardinality(c.eligible) < Cardinality(E)
  BY <1>0, CycleStep
<1>5. /\ c.given \in [H -> Nat] /\ c.left = d.left - Sum(more, E)
      /\ c.eligible = {n \in E : d.given[n] + more[n] < cap[n]}
      /\ \A n \in H : c.given[n] = d.given[n] + inc[n] /\ inc[n] \in Int
  BY <1>1, <1>3, <1>4 DEF Distribution
<1>6. /\ \A n \in E : inc[n] = more[n] /\ more[n] \in Int
      /\ \A n \in H \ E : inc[n] = 0
  BY <1>1, <1>3
<1>7. /\ \A n \in H : d.given[n] \in Nat /\ cap[n] \in Nat /\ c.given[n] \in Nat
      /\ \A n \in H : d.given[n] <= cap[n]
      /\ \A n \in H \ E : d.given[n] = cap[n]
      /\ Sum(d.given, H) + d.left = total
      /\ \A n \in E, m \in H : d.given[m] <= d.given[n] + (Cardinality(H) - Cardinality(E))
  BY <1>2, <1>3, <1>5 DEF GoodDistribution
<1> HIDE DEF c, inc, H, E
<1>8. \A n \in H : c.given[n] <= cap[n]
  BY <1>1, <1>5, <1>6, <1>7
<1>9. \A n \in H \ c.eligible : c.given[n] = cap[n]
  <2>1. SUFFICES ASSUME NEW n \in H \ c.eligible PROVE c.given[n] = cap[n]
    OBVIOUS
  <2>2. CASE n \in E
    <3>1. ~(d.given[n] + more[n] < cap[n]) /\ d.given[n] + more[n] <= cap[n]
      BY <1>1, <1>5, <2>1, <2>2
    <3>2. QED
      BY <1>5, <1>6, <1>7, <2>2, <3>1
  <2>3. CASE n \notin E
    BY <1>5, <1>6, <1>7, <2>3
  <2>4. QED
    BY <2>2, <2>3
<1>10. Sum(c.given, H) + c.left = total
  <2>1. Sum(c.given, H) = Sum(d.given, H) + Sum(inc, H)
    <3>1. \A n \in H : d.given[n] \in Int /\ inc[n] \in Int /\ c.given[n] = d.given[n] + inc[n]
      BY <1>5, <1>7
    <3>2. QED
      BY <1>2, <3>1, SumOfSums
  <2>2. Sum(inc, H) = Sum(inc, E)
    <3>1. \A n \in H : inc[n] \in Int
      BY <1>5
    <3>2. QED
      BY <1>2, <1>3, <1>6, <3>1, SumOfSupport
  <2>3. Sum(inc, E) = Sum(more, E)
    <3>1. IsFiniteSet(E)
      BY <1>2, <1>3, FS_Subset
    <3>2. \A n \in E : more[n] \in Int /\ inc[n] = more[n]
      BY <1>6
    <3>3. QED
      BY <3>1, <3>2, SumCongruent
  <2>4. Sum(d.given, H) \in Int
    <3>1. \A n \in H : d.given[n] \in Int
      BY <1>7
    <3>2. H \in SUBSET H
      OBVIOUS
    <3>3. QED
      BY <1>2, <3>1, <3>2, SumPick
  <2>5. QED
    BY <1>1, <1>3, <1>5, <1>7, <2>1, <2>2, <2>3, <2>4
<1>11. ASSUME NEW n \in c.eligible, NEW m \in H
       PROVE  c.given[m] <= c.given[n] + (IF c.left = 0 THEN Cardinality(H)
                                          ELSE Cardinality(H) - Cardinality(c.eligible))
  <2>1. n \in E /\ n \in H /\ d.given[n] + more[n] < cap[n]
    BY <1>3, <1>5
  <2>2. more[n] \in Int /\ more[n] >= 0 /\ \A k \in E : more[k] <= more[n] + 1
    BY <1>1, <1>6, <2>1
  <2>3. inc[m] <= more[n] + 1 /\ inc[m] \in Int
    BY <1>5, <1>6, <2>2
  <2>4. c.given[n] = d.given[n] + more[n] /\ c.given[m] = d.given[m] + inc[m]
    BY <1>5, <1>6, <2>1
  <2>5. d.given[m] <= d.given[n] + (Cardinality(H) - Cardinality(E))
    BY <1>7, <2>1
  <2>6. d.given[m] \in Nat /\ d.given[n] \in Nat
    BY <1>7, <2>1
  <2>7. c.given[m] <= c.given[n] + (Cardinality(H) - Cardinality(E)) + 1
    BY <1>2, <1>4, <2>2, <2>3, <2>4, <2>5, <2>6
  <2>8. (Cardinality(H) - Cardinality(E)) + 1 <= (IF c.left = 0 THEN Cardinality(H)
                                          ELSE Cardinality(H) - Cardinality(c.eligible))
    BY <1>2, <1>4
  <2>9. QED
    BY <1>2, <1>4, <1>7, <2>1, <2>7, <2>8
<1>12. ASSUME total >= Cardinality(H) PROVE \A n \in H : cap[n] > 0 => c.given[n] > 0
  <2>1. Served(cap, d)
    BY <1>12 DEF GoodDistribution, H
  <2>2. CASE \A n \in H : cap[n] > 0 => d.given[n] > 0
    <3>1. SUFFICES ASSUME NEW n \in H, cap[n] > 0 PROVE c.given[n] > 0
      OBVIOUS
    <3>2. CASE n \in c.eligible
      <4>1. n \in E /\ d.given[n] + more[n] < cap[n]
        BY <1>5, <3>2
      <4>2. more[n] \in Int /\ more[n] >= 0 /\ inc[n] = more[n]
        BY <1>1, <1>6, <4>1
      <4>3. QED
        BY <1>5, <1>7, <2>2, <3>1, <4>2
    <3>3. CASE n \notin c.eligible
      BY <1>9, <3>1, <3>3
    <3>4. QED
      BY <3>2, <3>3
  <2>3. CASE E = H /\ \A n \in H : d.given[n] = 0
    <3>1. Sum(d.given, H) = 0
      <4>1. \A n \in H : d.given[n] \in Int
        BY <1>7
      <4>2. {} \in SUBSET H /\ \A n \in H \ {} : d.given[n] = 0
        BY <2>3
      <4>3. Sum(d.given, H) = Sum(d.given, {})
        BY <1>2, <4>1, <4>2, SumOfSupport
      <4>4. QED
        BY <4>3, SumEmpty
    <3>2. d.left >= Cardinality(E)
      BY <1>2, <1>3, <1>7, <1>12, <2>3, <3>1
    <3>3. SUFFICES ASSUME NEW n \in H, cap[n] > 0 PROVE c.given[n] > 0
      OBVIOUS
    <3>4. more[n] >= 1 \/ d.given[n] + more[n] = cap[n]
      BY <1>1, <2>3, <3>2, <3>3
    <3>5. c.given[n] = d.given[n] + more[n] /\ d.given[n] = 0 /\ more[n] \in Int /\ cap[n] \in Nat
      BY <1>5, <1>6, <1>7, <2>3, <3>3
    <3>6. QED
      BY <3>3, <3>4, <3>5
  <2>4. QED
    BY <2>1, <2>2, <2>3 DEF Served, E, H
<1>13. total >= Cardinality(H) => Served(cap, c)
  BY <1>12 DEF Served, H
<1>14. QED
  BY <1>4, <1>8, <1>9, <1>10, <1>11, <1>13 DEF GoodDistribution, c, H

\* and where the loop ends it makes the shares fair.
LEMMA GoodEnd ==
    ASSUME NEW cap, IsCap(cap), NEW total \in Nat, NEW d,
           GoodDistribution(cap, total, d), d.left = 0 \/ d.eligible = {}
    PROVE  FairShares(d.given, cap, total)
<1> DEFINE H == DOMAIN cap
<1>1. d.given \in [H -> Nat] /\ d.left \in Nat /\ d.eligible \in SUBSET H
  BY DEF GoodDistribution, Distribution
<1>2. IsFiniteSet(H) /\ Cardinality(H) \in Nat /\ cap \in [H -> Nat]
  BY FS_CardinalityType DEF IsCap
<1>3. /\ \A n \in H : d.given[n] <= cap[n] /\ d.given[n] \in Nat /\ cap[n] \in Nat
      /\ \A n \in H \ d.eligible : d.given[n] = cap[n]
      /\ Sum(d.given, H) + d.left = total
  BY <1>1, <1>2 DEF GoodDistribution
<1>4. Sum(d.given, H) \in Int /\ Sum(cap, H) \in Int /\ Sum(d.given, H) <= Sum(cap, H)
  <2>1. \A n \in H : d.given[n] \in Int /\ cap[n] \in Int /\ d.given[n] <= cap[n]
    BY <1>3
  <2>2. Sum(d.given, H) <= Sum(cap, H)
    BY <1>2, <2>1, SumMonotonic
  <2>3. H \in SUBSET H
    OBVIOUS
  <2>4. Sum(d.given, H) \in Int
    BY <1>2, <2>1, <2>3, SumPick
  <2>5. Sum(cap, H) \in Int
    BY <1>2, <2>1, <2>3, SumPick
  <2>6. QED
    BY <2>2, <2>4, <2>5
<1>5. Sum(d.given, H) = Min({total, Sum(cap, H)})
  <2>1. Min({total, Sum(cap, H)}) = IF total <= Sum(cap, H) THEN total ELSE Sum(cap, H)
    BY <1>4, MinOfTwo
  <2>2. CASE d.left = 0
    BY <1>3, <1>4, <2>1, <2>2
  <2>3. CASE d.eligible = {}
    <3>1. \A n \in H : d.given[n] \in Int /\ cap[n] = d.given[n]
      BY <1>3, <2>3
    <3>2. Sum(d.given, H) = Sum(cap, H)
      BY <1>2, <3>1, SumCongruent
    <3>3. QED
      BY <1>1, <1>3, <1>4, <2>1, <3>2
  <2>4. QED
    BY <2>2, <2>3
<1>6. ASSUME NEW n \in H, NEW m \in H, d.given[n] < cap[n]
      PROVE  d.given[m] <= d.given[n] + Cardinality(H)
  <2>1. n \in d.eligible /\ d.left = 0
    <3>1. d.given[n] # cap[n]
      BY <1>3, <1>6
    <3>2. QED
      BY <1>3, <3>1
  <2>2. QED
    BY <2>1 DEF GoodDistribution
<1>7. ASSUME total >= Cardinality(H), NEW n \in H, cap[n] > 0 PROVE d.given[n] > 0
  <2>1. Served(cap, d)
    BY <1>7 DEF GoodDistribution
  <2>2. CASE d.eligible = H /\ \A m \in H : d.given[m] = 0
    <3>1. Cardinality(H) # 0 /\ H # {}
      BY <1>2, <1>7, FS_EmptySet
    <3>2. Sum(d.given, H) = 0
      <4>1. \A m \in H : d.given[m] \in Int
        BY <1>3
      <4>2. {} \in SUBSET H /\ \A m \in H \ {} : d.given[m] = 0
        BY <2>2
      <4> HIDE DEF H
      <4>3. Sum(d.given, H) = Sum(d.given, {})
        BY <1>2, <4>1, <4>2, SumOfSupport
      <4>4. QED
        BY <4>3, SumEmpty
    <3>3. d.left = 0
      BY <2>2, <3>1
    <3>4. QED
      BY <1>2, <1>3, <1>7, <3>1, <3>2, <3>3
  <2>3. QED
    BY <1>7, <2>1, <2>2 DEF Served
<1>8. QED
  BY <1>1, <1>3, <1>5, <1>6, <1>7 DEF FairShares

\* distributeQuotas divides a quota fairly, whatever the host nodes have.
THEOREM SharesAreFair ==
    ASSUME NEW cap, IsCap(cap), NEW total \in Nat
    PROVE  FairShares(Shares(cap, total), cap, total)
<1> DEFINE D == Distribution(cap)
<1> DEFINE g == CHOOSE h : IsLoop(h, cap)
<1>1. IsLoop(g, cap)
  BY LoopExists
<1>2. Shares(cap, total) = g[Start(cap, total)]
  BY SharesLoop
<1> HIDE DEF g
<1>3. \A d \in D : g[d] = IF d.left = 0 \/ d.eligible = {} THEN d.given ELSE g[Cycle(cap, d)]
  BY <1>1 DEF IsLoop
<1> DEFINE size(d) == IF d.left = 0 THEN 0 ELSE Cardinality(d.eligible)
<1> DEFINE A == {k \in Nat : \A d \in D : GoodDistribution(cap, total, d) /\ size(d) < k
                                             => FairShares(g[d], cap, total)}
<1>4. \A d \in D : size(d) \in Nat
  <2>1. SUFFICES ASSUME NEW d \in D PROVE Cardinality(d.eligible) \in Nat
    OBVIOUS
  <2>2. IsFiniteSet(DOMAIN cap) /\ d.eligible \in SUBSET DOMAIN cap
    BY DEF IsCap, Distribution
  <2>3. QED
    BY <2>2, PickRemoves
<1>5. 0 \in A
  BY <1>4
<1>6. ASSUME NEW k \in Nat, k \in A PROVE k + 1 \in A
  <2>1. SUFFICES ASSUME NEW d \in D, GoodDistribution(cap, total, d), size(d) < k + 1
                 PROVE  FairShares(g[d], cap, total)
    OBVIOUS
  <2>2. CASE d.left = 0 \/ d.eligible = {}
    <3>1. g[d] = d.given
      BY <1>3, <2>2
    <3>2. QED
      BY <2>1, <2>2, <3>1, GoodEnd
  <2>3. CASE d.left # 0 /\ d.eligible # {}
    <3> DEFINE c == Cycle(cap, d)
    <3>1. GoodDistribution(cap, total, c)
      BY <2>1, <2>3, GoodCycle
    <3>2. /\ c \in D
          /\ Cardinality(d.eligible) \in Nat /\ Cardinality(c.eligible) \in Nat
          /\ Cardinality(d.eligible) > 0
          /\ c.left # 0 => Cardinality(c.eligible) < Cardinality(d.eligible)
      BY <2>3, CycleStep
    <3>3. size(c) < k
      BY <2>1, <2>3, <3>2
    <3>4. g[d] = g[c]
      BY <1>3, <2>3
    <3> HIDE DEF c, size
    <3>5. FairShares(g[c], cap, total)
      BY <1>6, <3>1, <3>2, <3>3
    <3>6. QED
      BY <3>4, <3>5
  <2>4. QED
    BY <2>2, <2>3
<1>7. Nat \subseteq A
  <2> HIDE DEF A
  <2>1. QED
    BY <1>5, <1>6, NatInductionSet
<1>8. GoodDistribution(cap, total, Start(cap, total)) /\ Start(cap, total) \in D
  BY GoodStart DEF GoodDistribution
<1>9. size(Start(cap, total)) + 1 \in A
  <2> HIDE DEF A, size
  <2>1. QED
    BY <1>4, <1>7, <1>8
<1>10. size(Start(cap, total)) < size(Start(cap, total)) + 1
  <2> HIDE DEF size
  <2>1. QED
    BY <1>4, <1>8
<1> HIDE DEF size
<1>11. FairShares(g[Start(cap, total)], cap, total)
  BY <1>8, <1>9, <1>10
<1>12. QED
  BY <1>2, <1>11

-----------------------------------------------------------------------------
\* The least of a set of numbers is one of them.
LEMMA MinOfNaturals ==
    ASSUME NEW S, S \subseteq Nat, S # {}
    PROVE  Min(S) \in S /\ \A n \in S : Min(S) <= n
<1>1. \E n \in S : \A m \in S : n <= m
  BY LeastNatural
<1>2. QED
  BY <1>1 DEF Min

\* The quotas of a namespace merge into a list.
LEMMA MergedList ==
    ASSUME NEW lists \in SUBSET QuotaLists
    PROVE  /\ IsList(MergeQuotas(lists))
           /\ DOMAIN MergeQuotas(lists) = UNION {DOMAIN l : l \in lists}
           /\ \A name \in UNION {DOMAIN l : l \in lists} :
                 MergeQuotas(lists)[name] = Min({l[name] : l \in {q \in lists : name \in DOMAIN q}})
<1>1. ASSUME NEW name \in UNION {DOMAIN l : l \in lists}
      PROVE  Min({l[name] : l \in {q \in lists : name \in DOMAIN q}}) \in Nat
  <2> DEFINE S == {l[name] : l \in {q \in lists : name \in DOMAIN q}}
  <2>1. PICK l \in lists : name \in DOMAIN l
    OBVIOUS
  <2>2. S \subseteq Nat
    BY CapacityAssumption DEF IsList
  <2>3. S # {}
    BY <2>1
  <2> HIDE DEF S
  <2>4. Min(S) \in Nat
    BY <2>2, <2>3, MinOfNaturals
  <2>5. QED
    BY <2>4 DEF S
<1>2. QED
  BY <1>1 DEF MergeQuotas, IsList

\* And what filterQuotas leaves of a list is one.
LEMMA FilteredList ==
    ASSUME NEW list, IsList(list)
    PROVE  /\ IsList(FilterQuotas(list))
           /\ DOMAIN FilterQuotas(list) = {ResourceOf(name) : name \in DOMAIN list \ coreResources}
           /\ \A r \in DOMAIN FilterQuotas(list) :
                 \E name \in DOMAIN list \ coreResources :
                    ResourceOf(name) = r /\ FilterQuotas(list)[r] = list[name]
<1> DEFINE names == DOMAIN list \ coreResources
<1> DEFINE R == {ResourceOf(name) : name \in names}
<1> DEFINE of(r) == CHOOSE name \in names : ResourceOf(name) = r
<1>1. FilterQuotas(list) = [r \in R |-> list[of(r)]]
  BY DEF FilterQuotas
<1>2. ASSUME NEW r \in R PROVE of(r) \in names /\ ResourceOf(of(r)) = r
  <2>1. \E name \in names : ResourceOf(name) = r
    OBVIOUS
  <2>2. QED
    BY <2>1
<1> HIDE DEF of, R
<1>3. DOMAIN FilterQuotas(list) = R /\ \A r \in R : FilterQuotas(list)[r] = list[of(r)]
  BY <1>1
<1>4. IsList(FilterQuotas(list))
  BY <1>2, <1>3 DEF IsList
<1>5. \A r \in R : \E name \in names : ResourceOf(name) = r /\ FilterQuotas(list)[r] = list[name]
  BY <1>2, <1>3
<1>6. QED
  BY <1>3, <1>4, <1>5 DEF R

\* The shares of a node are among what its host node has, and no more of it.
WithinHost(l, host) == DOMAIN l \subseteq DOMAIN host /\ \A r \in DOMAIN l : l[r] <= host[r]

\* What the nodes have of a resource, for the nodes that have it.
LEMMA CapOf ==
    ASSUME NEW hostMap, DOMAIN hostMap \subseteq Nodes,
           \A m \in DOMAIN hostMap : IsList(hostMap[m]), NEW r
    PROVE  IsCap([m \in {m \in DOMAIN hostMap : r \in DOMAIN hostMap[m]} |-> hostMap[m][r]])
<1> DEFINE have == {m \in DOMAIN hostMap : r \in DOMAIN hostMap[m]}
<1>1. have \subseteq Nodes /\ IsFiniteSet(have) /\ have \subseteq Nat
  BY CapacityAssumption, FS_Subset
<1>2. \A m \in have : hostMap[m][r] \in Nat
  BY DEF IsList
<1>3. QED
  BY <1>1, <1>2 DEF IsCap

\* The share of node n of a resource, of nodes with these lists.
ShareOf(n, hostMap, r, limit) ==
    Shares([m \in {m \in DOMAIN hostMap : r \in DOMAIN hostMap[m]} |-> hostMap[m][r]], limit)[n]

\* The list holds the shares of what the quota names, unless they are nothing.
HoldsShares(list, n, hostMap, quota) ==
    \A r \in DOMAIN hostMap[n] :
        /\ r \in DOMAIN list <=> (r \in DOMAIN quota => ShareOf(n, hostMap, r, quota[r]) > 0)
        /\ r \in DOMAIN list =>
              list[r] = IF r \in DOMAIN quota THEN ShareOf(n, hostMap, r, quota[r]) ELSE hostMap[n][r]
        /\ r \in DOMAIN quota => ShareOf(n, hostMap, r, quota[r]) \in Nat

\* The list distributeQuotas makes for a node that is registered.
LEMMA NodeSharesWithinHost ==
    ASSUME NEW n, NEW hostMap, DOMAIN hostMap \subseteq Nodes,
           \A m \in DOMAIN hostMap : IsList(hostMap[m]),
           NEW quota, IsList(quota), n \in DOMAIN hostMap
    PROVE  /\ HoldsShares(NodeShares(n, hostMap, quota), n, hostMap, quota)
           /\ IsList(NodeShares(n, hostMap, quota))
           /\ WithinHost(NodeShares(n, hostMap, quota), hostMap[n])
<1> DEFINE have(r) == {m \in DOMAIN hostMap : r \in DOMAIN hostMap[m]}
<1> DEFINE cap(r) == [m \in have(r) |-> hostMap[m][r]]
<1> DEFINE share(r) == Shares(cap(r), quota[r])[n]
<1> DEFINE list == NodeShares(n, hostMap, quota)
<1>1. list = [r \in {r \in DOMAIN hostMap[n] : r \in DOMAIN quota => share(r) > 0} |->
                 IF r \in DOMAIN quota THEN share(r) ELSE hostMap[n][r]]
  BY DEF NodeShares
<1>2. ASSUME NEW r \in DOMAIN hostMap[n], r \in DOMAIN quota
      PROVE  share(r) \in Nat /\ share(r) <= hostMap[n][r]
  <2>1. IsCap(cap(r)) /\ quota[r] \in Nat
    BY <1>2, CapOf DEF IsList
  <2>2. n \in have(r) /\ DOMAIN cap(r) = have(r) /\ cap(r)[n] = hostMap[n][r]
    BY <1>2
  <2> HIDE DEF cap, have
  <2>3. FairShares(Shares(cap(r), quota[r]), cap(r), quota[r])
    BY <2>1, SharesAreFair
  <2>4. QED
    BY <2>2, <2>3 DEF FairShares
<1>3. \A r \in DOMAIN hostMap[n] : hostMap[n][r] \in Nat
  BY DEF IsList
<1> HIDE DEF share
<1>4. /\ DOMAIN list = {r \in DOMAIN hostMap[n] : r \in DOMAIN quota => share(r) > 0}
      /\ \A r \in DOMAIN list : list[r] = IF r \in DOMAIN quota THEN share(r) ELSE hostMap[n][r]
  BY <1>1
<1> HIDE DEF list
<1>5. IsList(list) /\ WithinHost(list, hostMap[n])
  BY <1>2, <1>3, <1>4 DEF IsList, WithinHost
<1>6. \A r : share(r) = ShareOf(n, hostMap, r, quota[r])
  BY DEF share, ShareOf
<1>7. HoldsShares(list, n, hostMap, quota)
  BY <1>2, <1>4, <1>6 DEF HoldsShares
<1>8. QED
  BY <1>5, <1>7 DEF list

\* What node n is to report if the caches of its kubelet hold seen.
Allocatable(n, seen) == Overlaid(seen.hosts[n], SharesSeen(n, seen))

\* It has an entry for each resource of its host node, and none is above what the host
\* node has in the kubelet's cache.
LEMMA AllocatableWithinHost ==
    ASSUME NEW n \in Nodes, NEW seen \in Views
    PROVE  /\ IsList(Allocatable(n, seen))
           /\ WithinHost(Allocatable(n, seen), seen.hosts[n])
           /\ DOMAIN Allocatable(n, seen) = DOMAIN seen.hosts[n]
<1> DEFINE own == seen.hosts[n]
<1> DEFINE map == HostResourceMap(seen.hosts, seen.nodes)
<1> DEFINE quota == FilterQuotas(MergeQuotas(seen.quotas))
<1> DEFINE shares == SharesSeen(n, seen)
<1>1. /\ seen.hosts \in [Nodes -> HostLists] /\ seen.quotas \in SUBSET QuotaLists
      /\ seen.nodes \in SUBSET Nodes
  BY DEF Views
<1>2. IsList(own)
  BY <1>1, CapacityAssumption
<1>3. IsList(quota)
  <2>1. IsList(MergeQuotas(seen.quotas))
    BY <1>1, MergedList
  <2>2. QED
    BY <2>1, FilteredList
<1>4. /\ DOMAIN map = seen.nodes /\ \A m \in seen.nodes : map[m] = seen.hosts[m] /\ IsList(map[m])
  BY <1>1, CapacityAssumption DEF HostResourceMap
<1>5. IsList(shares) /\ WithinHost(shares, own)
  <2>1. shares = IF seen.quotas = {} THEN EmptyList ELSE NodeShares(n, map, quota)
    BY DEF SharesSeen
  <2> HIDE DEF map, quota, shares
  <2>2. CASE n \in seen.nodes /\ seen.quotas # {}
    <3>1. IsList(shares) /\ WithinHost(shares, map[n])
      BY <1>1, <1>3, <1>4, <2>1, <2>2, NodeSharesWithinHost
    <3>2. QED
      BY <1>4, <2>2, <3>1
  <2>3. CASE n \notin seen.nodes \/ seen.quotas = {}
    <3>1. shares = EmptyList
      BY <1>4, <2>1, <2>3 DEF NodeShares
    <3>2. QED
      BY <3>1 DEF EmptyList, IsList, WithinHost
  <2>4. QED
    BY <2>2, <2>3
<1>6. Allocatable(n, seen) = Overlaid(own, shares)
  BY DEF Allocatable
<1> HIDE DEF own, shares
<1>7. \A r \in DOMAIN own : own[r] \in Nat /\ own[r] <= own[r]
  BY <1>2 DEF IsList
<1> DEFINE a == Allocatable(n, seen)
<1>8. a = [r \in DOMAIN own \union DOMAIN shares |->
              IF r \in DOMAIN shares THEN shares[r] ELSE own[r]]
  BY <1>6 DEF Overlaid
<1>9. DOMAIN own \union DOMAIN shares = DOMAIN own
  BY <1>5 DEF WithinHost
<1> HIDE DEF a
<1>10. DOMAIN a = DOMAIN own /\ \A r \in DOMAIN own : a[r] = IF r \in DOMAIN shares THEN shares[r] ELSE own[r]
  BY <1>8, <1>9
<1>11. IsList(a)
  BY <1>5, <1>7, <1>10 DEF IsList
<1>12. WithinHost(a, own)
  BY <1>5, <1>7, <1>10 DEF WithinHost
<1>13. QED
  BY <1>10, <1>11, <1>12 DEF a, own

\* The updaters alone.
CapacitySpec == CapacityInit /\ [][CapacityNext]_capacityVars

\* The types hold at first,
LEMMA CapacityInitType == CapacityInit => CapacityTypeOK
<1> SUFFICES ASSUME CapacityInit PROVE CapacityTypeOK
  OBVIOUS
<1>1. IsList(EmptyList)
  BY DEF IsList, EmptyList
<1>2. view \in [nodes -> Views]
  BY DEF CapacityInit, EmptyList
<1>3. hosts \in [Nodes -> HostLists] /\ quotas \subseteq QuotaLists
  BY CapacityAssumption DEF CapacityInit
<1>4. MaxCapacityChanges \in Nat /\ MaxCapacityFaults \in Nat
  BY CapacityAssumption
<1>5. DOMAIN capacity = Nodes /\ \A n \in Nodes : IsList(capacity[n])
  BY <1>1 DEF CapacityInit
<1>6. DOMAIN updater = Nodes /\ \A n \in Nodes : updater[n].pc \in {"idle", "update"} /\ IsList(updater[n].allocatable)
  BY <1>1 DEF CapacityInit, Idle
<1>7. changes \in 0 .. MaxCapacityChanges /\ capacityFaults \in 0 .. MaxCapacityFaults /\ nodes \subseteq Nodes
  BY <1>4 DEF CapacityInit
<1>8. QED
  BY <1>2, <1>3, <1>5, <1>6, <1>7 DEF CapacityTypeOK

\* and every step keeps them.
LEMMA CapacityNextType == CapacityTypeOK /\ [CapacityNext]_capacityVars => CapacityTypeOK'
<1> SUFFICES ASSUME CapacityTypeOK, [CapacityNext]_capacityVars PROVE CapacityTypeOK'
  OBVIOUS
<1> USE DEF CapacityTypeOK, capacityBounds
<1>0. MaxCapacityChanges \in Nat /\ MaxCapacityFaults \in Nat /\ IsList(EmptyList)
  BY CapacityAssumption DEF IsList, EmptyList
<1>1. CASE ChangeQuotas
  <2>1. quotas' \subseteq QuotaLists
    BY <1>1 DEF ChangeQuotas
  <2>2. changes' \in 0 .. MaxCapacityChanges
    BY <1>0, <1>1 DEF ChangeQuotas, CapacityChange
  <2>3. QED
    BY <1>1, <2>1, <2>2 DEF ChangeQuotas
<1>2. ASSUME NEW n \in Nodes, ChangeHost(n) PROVE CapacityTypeOK'
  <2>1. hosts' \in [Nodes -> HostLists]
    BY <1>2 DEF ChangeHost
  <2>2. changes' \in 0 .. MaxCapacityChanges
    BY <1>0, <1>2 DEF ChangeHost, CapacityChange
  <2>3. QED
    BY <1>2, <2>1, <2>2 DEF ChangeHost
<1>3. ASSUME NEW n \in Nodes, RegisterNode(n) PROVE CapacityTypeOK'
  <2>1. nodes' \subseteq Nodes
    BY <1>3 DEF RegisterNode
  <2>2. [hosts |-> hosts, quotas |-> quotas, nodes |-> nodes] \in Views
    BY DEF Views
  <2>3. view' \in [nodes' -> Views]
    BY <1>3, <2>2 DEF RegisterNode
  <2>4. QED
    BY <1>3, <2>1, <2>3 DEF RegisterNode
<1>4. ASSUME NEW n \in Nodes, CapacitySync(n) PROVE CapacityTypeOK'
  <2>1. CASE SyncHosts(n)
    <3>1. view[n] \in Views /\ hosts \in [Nodes -> HostLists]
      BY <2>1 DEF SyncHosts
    <3>2. [view[n] EXCEPT !.hosts = hosts] \in Views
      BY <3>1 DEF Views
    <3>3. view' = [view EXCEPT ![n] = [view[n] EXCEPT !.hosts = hosts]]
      BY <2>1 DEF SyncHosts
    <3>4. view' \in [nodes -> Views]
      BY <3>2, <3>3
    <3>5. QED
      BY <2>1, <3>4 DEF SyncHosts
  <2>2. CASE SyncQuotas(n)
    <3>1. view[n] \in Views /\ quotas \in SUBSET QuotaLists
      BY <2>2 DEF SyncQuotas
    <3>2. [view[n] EXCEPT !.quotas = quotas] \in Views
      BY <3>1 DEF Views
    <3>3. view' = [view EXCEPT ![n] = [view[n] EXCEPT !.quotas = quotas]]
      BY <2>2 DEF SyncQuotas
    <3>4. view' \in [nodes -> Views]
      BY <3>2, <3>3
    <3>5. QED
      BY <2>2, <3>4 DEF SyncQuotas
  <2>3. CASE SyncNodes(n)
    <3>1. view[n] \in Views /\ nodes \in SUBSET Nodes
      BY <2>3 DEF SyncNodes
    <3>2. [view[n] EXCEPT !.nodes = nodes] \in Views
      BY <3>1 DEF Views
    <3>3. view' = [view EXCEPT ![n] = [view[n] EXCEPT !.nodes = nodes]]
      BY <2>3 DEF SyncNodes
    <3>4. view' \in [nodes -> Views]
      BY <3>2, <3>3
    <3>5. QED
      BY <2>3, <3>4 DEF SyncNodes
  <2>4. QED
    BY <1>4, <2>1, <2>2, <2>3 DEF CapacitySync
<1>5. ASSUME NEW n \in Nodes, n \in nodes, ComputeCapacity(n) PROVE CapacityTypeOK'
  <2>1. IsList(Allocatable(n, view[n]))
    BY <1>5, AllocatableWithinHost
  <2>2. updater' = [updater EXCEPT ![n] = [pc |-> "update", allocatable |-> Allocatable(n, view[n])]]
    BY <1>5 DEF ComputeCapacity, Allocatable
  <2>3. DOMAIN updater' = Nodes /\ \A m \in Nodes : updater'[m].pc \in {"idle", "update"} /\ IsList(updater'[m].allocatable)
    BY <2>1, <2>2
  <2>4. QED
    BY <1>5, <2>3 DEF ComputeCapacity
<1>6. ASSUME NEW n \in Nodes, n \in nodes, UpdateNodeStatus(n) PROVE CapacityTypeOK'
  <2>1. DOMAIN capacity' = Nodes /\ \A m \in Nodes : IsList(capacity'[m])
    BY <1>6 DEF UpdateNodeStatus
  <2>2. DOMAIN updater' = Nodes /\ \A m \in Nodes : updater'[m].pc \in {"idle", "update"} /\ IsList(updater'[m].allocatable)
    BY <1>0, <1>6 DEF UpdateNodeStatus, Idle
  <2>3. QED
    BY <1>6, <2>1, <2>2 DEF UpdateNodeStatus
<1>7. ASSUME NEW n \in Nodes, UpdateFails(n) PROVE CapacityTypeOK'
  <2>1. DOMAIN updater' = Nodes /\ \A m \in Nodes : updater'[m].pc \in {"idle", "update"} /\ IsList(updater'[m].allocatable)
    BY <1>0, <1>7 DEF UpdateFails, Idle
  <2>2. capacityFaults' \in 0 .. MaxCapacityFaults
    BY <1>0, <1>7 DEF UpdateFails
  <2>3. QED
    BY <1>7, <2>1, <2>2 DEF UpdateFails
<1>8. CASE UNCHANGED capacityVars
  BY <1>8 DEF capacityVars
<1>9. QED
  BY <1>1, <1>2, <1>3, <1>4, <1>5, <1>6, <1>7, <1>8 DEF CapacityNext, UpdaterStep

\* The capacity of every virtual node is a list of natural quantities.
THEOREM CapacityTypeCorrect == CapacitySpec => []CapacityTypeOK
BY CapacityInitType, CapacityNextType, PTL DEF CapacitySpec

-----------------------------------------------------------------------------
(* The capacities the kubelets settle on.                                  *)

\* The caches of every kubelet are current, and what they ask for is written.
Current == [hosts |-> hosts, quotas |-> quotas, nodes |-> nodes]
Settled ==
    \A n \in nodes :
        /\ view[n] = Current
        /\ capacity[n] = Allocatable(n, Current)
        /\ updater[n].pc = "update" => updater[n].allocatable = Allocatable(n, Current)

\* The quota entry of a resource goes by one name.
LEMMA NamesOf ==
    ASSUME NEW r \in {"cpu", "gpu"}
    PROVE  /\ LimitNames[r] \subseteq QuotaNames \ coreResources
           /\ \A name \in QuotaNames \ coreResources : ResourceOf(name) = r <=> name \in LimitNames[r]
           /\ \A a, b \in LimitNames[r] : \A k, l \in QuotaLists : a \in DOMAIN k /\ b \in DOMAIN l => a = b
<1>1. QuotaNames \ coreResources = {"limits.cpu", "gpu", "requests.gpu"}
  BY DEF QuotaNames, coreResources
<1>2. ResourceOf("limits.cpu") = "cpu" /\ ResourceOf("gpu") = "gpu" /\ ResourceOf("requests.gpu") = "gpu"
  BY DEF ResourceOf
<1>3. LimitNames["cpu"] = {"limits.cpu"} /\ LimitNames["gpu"] = {"gpu", "requests.gpu"}
  BY DEF LimitNames
<1>4. \A k, l \in QuotaLists : ~("gpu" \in DOMAIN k /\ "requests.gpu" \in DOMAIN l)
  BY CapacityAssumption
<1>5. CASE r = "cpu"
  BY <1>1, <1>2, <1>3, <1>5
<1>6. CASE r = "gpu"
  BY <1>1, <1>2, <1>3, <1>4, <1>6
<1>7. QED
  BY <1>5, <1>6

\* What mergeQuotas and filterQuotas leave of a resource is the smallest limit.
LEMMA QuotaIsLimit ==
    ASSUME quotas \in SUBSET QuotaLists, NEW r \in {"cpu", "gpu"}
    PROVE  LET quota == FilterQuotas(MergeQuotas(quotas))
           IN /\ IsList(quota)
              /\ r \in DOMAIN quota <=> Limits(r) # {}
              /\ r \in DOMAIN quota => quota[r] = Min(Limits(r))
<1> DEFINE merged == MergeQuotas(quotas)
<1> DEFINE quota == FilterQuotas(merged)
<1> DEFINE with(name) == {q \in quotas : name \in DOMAIN q}
<1>1. /\ IsList(merged)
      /\ DOMAIN merged = UNION {DOMAIN l : l \in quotas}
      /\ \A name \in DOMAIN merged : merged[name] = Min({l[name] : l \in with(name)})
  BY MergedList
<1>2. DOMAIN merged \subseteq QuotaNames
  BY <1>1, CapacityAssumption
<1> HIDE DEF merged
<1>3. /\ IsList(quota)
      /\ DOMAIN quota = {ResourceOf(name) : name \in DOMAIN merged \ coreResources}
      /\ \A s \in DOMAIN quota : \E name \in DOMAIN merged \ coreResources :
            ResourceOf(name) = s /\ quota[s] = merged[name]
  BY <1>1, FilteredList
<1> HIDE DEF quota
<1>4. /\ LimitNames[r] \subseteq QuotaNames \ coreResources
      /\ \A name \in QuotaNames \ coreResources : ResourceOf(name) = r <=> name \in LimitNames[r]
      /\ \A a, b \in LimitNames[r] : \A k, l \in QuotaLists : a \in DOMAIN k /\ b \in DOMAIN l => a = b
  BY NamesOf
<1>5. \A x : x \in Limits(r) <=> \E q \in quotas, name \in LimitNames[r] : name \in DOMAIN q /\ x = q[name]
  BY DEF Limits
<1>6. r \in DOMAIN quota => Limits(r) # {} /\ quota[r] = Min(Limits(r))
  <2>1. SUFFICES ASSUME r \in DOMAIN quota PROVE Limits(r) # {} /\ quota[r] = Min(Limits(r))
    OBVIOUS
  <2>2. PICK name \in DOMAIN merged \ coreResources : ResourceOf(name) = r /\ quota[r] = merged[name]
    BY <1>3, <2>1
  <2>3. name \in LimitNames[r]
    BY <1>2, <1>4, <2>2
  <2>4. PICK q \in quotas : name \in DOMAIN q
    BY <1>1, <2>2
  <2>5. \A k \in quotas, b \in LimitNames[r] : b \in DOMAIN k => b = name
    BY <1>4, <2>3, <2>4
  <2>6. Limits(r) = {l[name] : l \in with(name)}
    BY <1>5, <2>3, <2>5
  <2>7. Limits(r) # {}
    BY <1>5, <2>3, <2>4
  <2>8. QED
    BY <1>1, <2>2, <2>6, <2>7
<1>7. Limits(r) # {} => r \in DOMAIN quota
  <2>1. SUFFICES ASSUME NEW x \in Limits(r) PROVE r \in DOMAIN quota
    OBVIOUS
  <2>2. PICK q \in quotas, name \in LimitNames[r] : name \in DOMAIN q
    BY <1>5, <2>1
  <2>3. name \in DOMAIN merged \ coreResources /\ ResourceOf(name) = r
    BY <1>1, <1>4, <2>2
  <2>4. QED
    BY <1>3, <2>3
<1>8. QED
  BY <1>3, <1>6, <1>7 DEF quota, merged

\* Of a resource that a node has, a settled node reports what its host node has if
\* there is no limit, and else its share, or what the host node has if that is none.
LEMMA SettledReports ==
    ASSUME CapacityTypeOK, Settled, NEW r \in {"cpu", "gpu"}, NEW n \in nodes,
           r \in DOMAIN hosts[n]
    PROVE  LET have  == {m \in nodes : r \in DOMAIN hosts[m]}
               share == Shares([m \in have |-> hosts[m][r]], Min(Limits(r)))[n]
           IN capacity[n][r] = IF Limits(r) = {} \/ share = 0 THEN hosts[n][r] ELSE share
<1> DEFINE have == {m \in nodes : r \in DOMAIN hosts[m]}
<1> DEFINE share == Shares([m \in have |-> hosts[m][r]], Min(Limits(r)))[n]
<1> DEFINE map == HostResourceMap(hosts, nodes)
<1> DEFINE quota == FilterQuotas(MergeQuotas(quotas))
<1> DEFINE list == NodeShares(n, map, quota)
<1> DEFINE shares == SharesSeen(n, Current)
<1>1. hosts \in [Nodes -> HostLists] /\ quotas \in SUBSET QuotaLists /\ nodes \in SUBSET Nodes
  BY DEF CapacityTypeOK
<1>2. /\ IsList(quota) /\ (r \in DOMAIN quota <=> Limits(r) # {})
      /\ r \in DOMAIN quota => quota[r] = Min(Limits(r))
  BY <1>1, QuotaIsLimit
<1>3. DOMAIN map = nodes /\ \A m \in nodes : map[m] = hosts[m] /\ IsList(map[m])
  BY <1>1, CapacityAssumption DEF HostResourceMap
<1>4. /\ capacity[n] = Overlaid(hosts[n], shares)
      /\ shares = IF quotas = {} THEN EmptyList ELSE list
  BY DEF Settled, Allocatable, Current, SharesSeen
<1> DEFINE part == ShareOf(n, map, r, quota[r])
<1> DEFINE had == {m \in DOMAIN map : r \in DOMAIN map[m]}
<1> HIDE DEF map, quota
<1>5. HoldsShares(list, n, map, quota)
  <2>1. DOMAIN map \subseteq Nodes /\ n \in DOMAIN map /\ \A m \in DOMAIN map : IsList(map[m])
    BY <1>1, <1>3
  <2>2. QED
    BY <1>2, <2>1, NodeSharesWithinHost
<1>6. /\ r \in DOMAIN list <=> (r \in DOMAIN quota => part > 0)
      /\ r \in DOMAIN list => list[r] = IF r \in DOMAIN quota THEN part ELSE hosts[n][r]
      /\ r \in DOMAIN quota => part \in Nat
  <2> HIDE DEF part, list
  <2>1. QED
    BY <1>3, <1>5 DEF HoldsShares, part
<1>7. r \in DOMAIN quota => part = share
  <2>1. had = have /\ [m \in had |-> map[m][r]] = [m \in have |-> hosts[m][r]]
    BY <1>3
  <2>2. part = Shares([m \in had |-> map[m][r]], quota[r])[n]
    BY DEF ShareOf
  <2> HIDE DEF part, had
  <2>3. QED
    BY <1>2, <2>1, <2>2
<1> HIDE DEF list, part, share, shares
<1>8. capacity[n][r] = IF quotas # {} /\ r \in DOMAIN list THEN list[r] ELSE hosts[n][r]
  BY <1>4 DEF Overlaid, EmptyList
<1>9. Limits(r) = {} => capacity[n][r] = hosts[n][r]
  BY <1>2, <1>6, <1>8
<1>10. Limits(r) # {} => quotas # {}
  BY DEF Limits
<1>11. Limits(r) # {} => capacity[n][r] = IF share = 0 THEN hosts[n][r] ELSE share
  BY <1>2, <1>6, <1>7, <1>8, <1>10
<1>12. capacity[n][r] = IF Limits(r) = {} \/ share = 0 THEN hosts[n][r] ELSE share
  BY <1>9, <1>11
<1>13. QED
  BY <1>12 DEF share

\* Settled kubelets agree on fair shares.
LEMMA SettledKubeletsAgree ==
    ASSUME CapacityTypeOK, Settled
    PROVE  CapacityAgrees
<1>1. SUFFICES ASSUME NEW r \in {"cpu", "gpu"}
               PROVE  LET have == {n \in nodes : r \in DOMAIN hosts[n]}
                      IN /\ \A n \in nodes : r \in DOMAIN capacity[n] <=> n \in have
                         /\ \A n \in have : capacity[n][r] <= hosts[n][r]
                         /\ Limits(r) = {} => \A n \in have : capacity[n][r] = hosts[n][r]
                         /\ Limits(r) # {} /\ Min(Limits(r)) >= Cardinality(have)
                              => FairShares([n \in have |-> capacity[n][r]],
                                            [n \in have |-> hosts[n][r]], Min(Limits(r)))
  BY DEF CapacityAgrees
<1> DEFINE have == {n \in nodes : r \in DOMAIN hosts[n]}
<1> DEFINE cap == [m \in have |-> hosts[m][r]]
<1> DEFINE limit == Min(Limits(r))
<1> DEFINE S == Shares(cap, limit)
<1>2. hosts \in [Nodes -> HostLists] /\ quotas \in SUBSET QuotaLists /\ nodes \in SUBSET Nodes
  BY DEF CapacityTypeOK
<1>0. \A m \in have : hosts[m][r] \in Nat
  BY <1>2, CapacityAssumption DEF IsList
<1>3. \A n \in nodes : r \in DOMAIN capacity[n] <=> n \in have
  <2>1. Current \in Views
    BY <1>2 DEF Current, Views
  <2>2. \A n \in nodes : capacity[n] = Allocatable(n, Current) /\ Current.hosts = hosts
    BY DEF Settled, Current
  <2>3. \A n \in nodes : DOMAIN capacity[n] = DOMAIN hosts[n]
    BY <1>2, <2>1, <2>2, AllocatableWithinHost
  <2>4. QED
    BY <2>3
<1>4. \A n \in have : capacity[n][r] = IF Limits(r) = {} \/ S[n] = 0 THEN hosts[n][r] ELSE S[n]
  BY SettledReports
<1>5. CASE Limits(r) = {}
  <2> HIDE DEF S
  <2>1. \A n \in have : capacity[n][r] = hosts[n][r] /\ capacity[n][r] <= hosts[n][r]
    BY <1>0, <1>4, <1>5
  <2>2. QED
    BY <1>3, <1>5, <2>1
<1>6. CASE Limits(r) # {}
  <2>1. IsCap(cap)
    <3>1. have \subseteq Nodes /\ IsFiniteSet(have) /\ have \subseteq Nat
      BY <1>2, CapacityAssumption, FS_Subset
    <3>2. QED
      BY <1>0, <3>1 DEF IsCap
  <2>2. limit \in Nat
    <3>1. Limits(r) \subseteq Nat
      BY <1>2, CapacityAssumption DEF Limits, IsList
    <3>2. QED
      BY <1>6, <3>1, MinOfNaturals
  <2>3. FairShares(S, cap, limit)
    <3> HIDE DEF cap, limit
    <3>1. QED
      BY <2>1, <2>2, SharesAreFair
  <2>4. /\ DOMAIN cap = have /\ \A n \in have : cap[n] = hosts[n][r]
        /\ [n \in have |-> hosts[n][r]] = cap
    OBVIOUS
  <2>5. /\ S \in [have -> Nat] /\ \A n \in have : S[n] <= cap[n]
        /\ limit >= Cardinality(have) => \A n \in have : cap[n] > 0 => S[n] > 0
    <3> HIDE DEF cap, S, have, limit
    <3>1. QED
      BY <2>3, <2>4 DEF FairShares
  <2> HIDE DEF S, cap
  <2>6. \A n \in have : capacity[n][r] <= hosts[n][r]
    BY <1>0, <1>4, <1>6, <2>4, <2>5
  <2>7. ASSUME limit >= Cardinality(have) PROVE [n \in have |-> capacity[n][r]] = S
    <3>1. ASSUME NEW n \in have PROVE capacity[n][r] = S[n]
      BY <1>0, <1>4, <1>6, <2>4, <2>5, <2>7
    <3>2. QED
      BY <2>5, <3>1
  <2>8. limit >= Cardinality(have) => FairShares([n \in have |-> capacity[n][r]], cap, limit)
    BY <2>3, <2>7
  <2>9. QED
    BY <1>3, <1>6, <2>4, <2>6, <2>8
<1>7. QED
  BY <1>5, <1>6

\* Whatever the kubelets did before, once their caches are current and what they
\* computed from these is written, every node reports its host node's resources with
\* the limited ones in fair shares, if the quota has a unit for each node: the updaters
\* of updateNodeCapacity need no word between them to agree on one division of it.
THEOREM SettledAgrees == CapacitySpec => [](Settled => CapacityAgrees)
<1>1. CapacityTypeOK => (Settled => CapacityAgrees)
  BY SettledKubeletsAgree
<1>2. QED
  BY <1>1, CapacityTypeCorrect, PTL

\* A step that leaves the host nodes, the quotas and the set of nodes alone keeps
\* the kubelets settled.
LEMMA SettledStep ==
    ASSUME CapacityTypeOK, [CapacityNext]_capacityVars, Settled, UNCHANGED <<hosts, quotas, nodes>>
    PROVE  Settled'
<1> DEFINE to(n) == Allocatable(n, Current)
<1>1. Current' = Current /\ nodes' = nodes /\ hosts' = hosts /\ quotas' = quotas /\ nodes \subseteq Nodes
  BY DEF Current, CapacityTypeOK
<1>2. Current.hosts = hosts /\ Current.quotas = quotas /\ Current.nodes = nodes
  BY DEF Current
<1>3. \A n \in nodes : to(n)' = to(n)
  BY <1>1
<1>4. /\ \A n \in nodes : view[n] = Current /\ capacity[n] = to(n)
      /\ \A n \in nodes : updater[n].pc = "update" => updater[n].allocatable = to(n)
  BY DEF Settled
<1> HIDE DEF to
<1>5. SUFFICES ASSUME NEW n \in nodes
               PROVE  /\ view'[n] = Current /\ capacity'[n] = to(n)
                      /\ updater'[n].pc = "update" => updater'[n].allocatable = to(n)
  <2>1. /\ \A n \in nodes : view'[n] = Current' /\ capacity'[n] = to(n)'
        /\ \A n \in nodes : updater'[n].pc = "update" => updater'[n].allocatable = to(n)'
    BY <1>1, <1>3, <1>5
  <2>2. QED
    BY <1>1, <2>1 DEF Settled, to
<1>6. DOMAIN capacity = Nodes /\ DOMAIN updater = Nodes /\ DOMAIN view = nodes
  BY DEF CapacityTypeOK
<1>7. CASE ChangeQuotas
  BY <1>1, <1>7 DEF ChangeQuotas
<1>8. ASSUME NEW m \in Nodes, ChangeHost(m) PROVE FALSE
  BY <1>1, <1>8 DEF ChangeHost, CapacityTypeOK
<1>9. ASSUME NEW m \in Nodes, RegisterNode(m) PROVE FALSE
  BY <1>1, <1>9 DEF RegisterNode
<1>10. ASSUME NEW m \in Nodes, CapacitySync(m) PROVE FALSE
  BY <1>2, <1>4, <1>10 DEF CapacitySync, SyncHosts, SyncQuotas, SyncNodes
<1>11. ASSUME NEW m \in Nodes, m \in nodes, ComputeCapacity(m)
       PROVE  /\ view'[n] = Current /\ capacity'[n] = to(n)
              /\ updater'[n].pc = "update" => updater'[n].allocatable = to(n)
  <2>1. updater' = [updater EXCEPT ![m] = [pc |-> "update", allocatable |-> to(m)]]
    BY <1>4, <1>11 DEF ComputeCapacity, Allocatable, to
  <2>2. view' = view /\ capacity' = capacity
    BY <1>11 DEF ComputeCapacity
  <2>3. QED
    BY <1>1, <1>4, <1>6, <2>1, <2>2
<1>12. ASSUME NEW m \in Nodes, m \in nodes, UpdateNodeStatus(m)
       PROVE  /\ view'[n] = Current /\ capacity'[n] = to(n)
              /\ updater'[n].pc = "update" => updater'[n].allocatable = to(n)
  <2>1. capacity'[n] = to(n)
    BY <1>4, <1>6, <1>12 DEF UpdateNodeStatus
  <2>2. view' = view /\ updater' = [updater EXCEPT ![m] = Idle]
    BY <1>12 DEF UpdateNodeStatus
  <2>3. QED
    BY <1>1, <1>4, <1>6, <2>1, <2>2 DEF Idle
<1>13. ASSUME NEW m \in Nodes, UpdateFails(m)
       PROVE  /\ view'[n] = Current /\ capacity'[n] = to(n)
              /\ updater'[n].pc = "update" => updater'[n].allocatable = to(n)
  <2>1. view' = view /\ capacity' = capacity /\ updater' = [updater EXCEPT ![m] = Idle]
    BY <1>13 DEF UpdateFails
  <2>2. QED
    BY <1>1, <1>4, <1>6, <2>1 DEF Idle
<1>14. CASE UNCHANGED capacityVars
  BY <1>4, <1>14 DEF capacityVars
<1>15. ASSUME CapacityNext
       PROVE  /\ view'[n] = Current /\ capacity'[n] = to(n)
              /\ updater'[n].pc = "update" => updater'[n].allocatable = to(n)
  BY <1>7, <1>8, <1>9, <1>10, <1>11, <1>12, <1>13, <1>15 DEF CapacityNext, UpdaterStep
<1>16. QED
  BY <1>14, <1>15

\* Settled kubelets stay so until a host node, a quota or the set of nodes changes: no
\* tick, write or failed call takes the agreed capacities away again.
THEOREM SettledStays ==
    CapacitySpec => [][Settled /\ UNCHANGED <<hosts, quotas, nodes>> => Settled']_capacityVars
<1>1. CapacityTypeOK /\ [CapacityNext]_capacityVars
        => [Settled /\ UNCHANGED <<hosts, quotas, nodes>> => Settled']_capacityVars
  BY SettledStep
<1>2. QED
  BY <1>1, CapacityTypeCorrect, PTL DEF CapacitySpec

\* A tick of updateNodeCapacity asks for what the host node has in the kubelet's cache,
\* no entry more or less, and of none more than there is, whatever the quotas are and
\* however late the other caches.
ComputedWithinHost ==
    \A n \in nodes :
        ComputeCapacity(n) =>
            /\ DOMAIN updater'[n].allocatable = DOMAIN view[n].hosts[n]
            /\ WithinHost(updater'[n].allocatable, view[n].hosts[n])

\* Every tick of every kubelet stays within its host node that way.
THEOREM TicksStayWithinHost == CapacitySpec => [][ComputedWithinHost]_capacityVars
<1>1. ASSUME CapacityTypeOK PROVE ComputedWithinHost
  <2>1. SUFFICES ASSUME NEW n \in nodes, ComputeCapacity(n)
                 PROVE  /\ DOMAIN updater'[n].allocatable = DOMAIN view[n].hosts[n]
                        /\ WithinHost(updater'[n].allocatable, view[n].hosts[n])
    BY DEF ComputedWithinHost
  <2>2. n \in Nodes /\ view[n] \in Views /\ DOMAIN updater = Nodes
    BY <1>1 DEF CapacityTypeOK
  <2>3. updater'[n].allocatable = Allocatable(n, view[n])
    BY <2>1, <2>2 DEF ComputeCapacity, Allocatable
  <2>4. QED
    BY <2>2, <2>3, AllocatableWithinHost
<1>2. CapacityTypeOK /\ [CapacityNext]_capacityVars => [ComputedWithinHost]_capacityVars
  BY <1>1
<1>3. QED
  BY <1>2, CapacityTypeCorrect, PTL DEF CapacitySpec

-----------------------------------------------------------------------------
(* The kubelet.                                                             *)

\* The composition gives the syncers their own initial states and lets nothing but
\* their own steps change their variables.
LEMMA RefinesSyncers ==
    /\ Init => SyncInit
    /\ [Next]_vars => [SyncNext]_syncVars
<1>1. Init => SyncInit
  BY DEF Init
<1>2. ASSUME [Next]_vars PROVE [SyncNext]_syncVars
  <2>1. CASE Next
    BY <2>1 DEF Next
  <2>2. CASE UNCHANGED vars
    BY <2>2 DEF vars
  <2>3. QED
    BY <1>2, <2>1, <2>2
<1>3. QED
  BY <1>1, <1>2

\* The kubelet, whatever else it does, behaves as the syncers alone as far as
\* their variables go.
THEOREM ImplementsSyncers == Spec => SyncSpec
BY RefinesSyncers, PTL DEF Spec, SyncSpec

\* A copy in the host cluster that is not being removed belongs to an object that
\* still exists in the virtual cluster and carries the finalizer, so that deleting
\* the object deletes the copy.
THEOREM CopiesKeepSource == Spec => []CopyHasSource
BY ImplementsSyncers, SyncersKeepSource, PTL

\* The same for the pods.
LEMMA RefinesPods ==
    /\ Init => PodInit
    /\ [Next]_vars => [PodNext]_podVars
<1>1. Init => PodInit
  BY DEF Init
<1>2. ASSUME [Next]_vars PROVE [PodNext]_podVars
  <2>1. CASE Next
    BY <2>1 DEF Next
  <2>2. CASE UNCHANGED vars
    BY <2>2 DEF vars
  <2>3. QED
    BY <1>2, <2>1, <2>2
<1>3. QED
  BY <1>1, <1>2

\* The kubelet behaves as the provider alone as far as the pods go.
THEOREM ImplementsPods == Spec => PodSpec
BY RefinesPods, PTL DEF Spec, PodSpec

\* A live host pod belongs to the virtual pod that now has its name, unless virtual
\* pods are removed by force; and the pods and the objects keep their types.
THEOREM HostPodsKeepPod == Spec => [](HostPodIsOwn /\ PodTypeOK /\ SyncTypeOK)
BY ImplementsPods, PodKeepsHostPod, PodTypeCorrect, ImplementsSyncers, SyncersKeepSource, PTL

\* In the whole kubelet, too, a live host pod never mounts the token of another pod of
\* its name, unless virtual pods are removed by force.
THEOREM HostPodsKeepToken == Spec => []TokenIsOwn
BY ImplementsPods, PodKeepsToken, PTL

\* The same for the capacity of the nodes.
LEMMA RefinesCapacity ==
    /\ Init => CapacityInit
    /\ [Next]_vars => [CapacityNext]_capacityVars
<1>1. Init => CapacityInit
  BY DEF Init
<1>2. ASSUME [Next]_vars PROVE [CapacityNext]_capacityVars
  <2>1. CASE Next
    BY <2>1 DEF Next
  <2>2. CASE UNCHANGED vars
    BY <2>2 DEF vars
  <2>3. QED
    BY <1>2, <2>1, <2>2
<1>3. QED
  BY <1>1, <1>2

\* The kubelets behave as their updaters alone as far as the nodes go.
THEOREM ImplementsCapacity == Spec => CapacitySpec
BY RefinesCapacity, PTL DEF Spec, CapacitySpec

\* Every variable of the kubelet keeps its type, in particular every quantity a virtual
\* node reports is a natural number: no division of a quota, remainder or rest of a
\* host node's room is ever negative.
THEOREM TypeCorrect == Spec => []TypeOK
<1>1. Init => workload \in Workloads
  BY DEF Init
<1>2. workload \in Workloads /\ [Next]_vars => (workload \in Workloads)'
  BY DEF Next, vars
<1>3. Spec => [](workload \in Workloads)
  BY <1>1, <1>2, PTL DEF Spec
<1>4. workload \in Workloads /\ PodTypeOK /\ SyncTypeOK /\ CapacityTypeOK => TypeOK
  BY DEF TypeOK
<1>5. QED
  BY <1>3, <1>4, HostPodsKeepPod, ImplementsCapacity, CapacityTypeCorrect, PTL
=============================================================================
