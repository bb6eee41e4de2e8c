--------------------------- MODULE AccountingProofs -------------------------
(* What must add up.  The memory cache: for any keys, sizes and budget the   *)
(* running total is what the entries add up to, the mark of a playing sample *)
(* protects it, a put ends within the budget or with nothing left to evict,  *)
(* and what goes is what was used longest ago.  The mix: for any length of a *)
(* loop, any parts, maps, gains and bass management nothing jumps, is lost   *)
(* or sounds twice.  The sums and folds come first.  Then starting: what     *)
(* validates starts, the command line is in force, paths stay inside.        *)
(* Devices: the one that opens is the one named, and serves.  Commands: the  *)
(* same however sent, and for nothing but what they name.  Decoding: every   *)
(* frame once and in time, as a stream and as a whole.                       *)
EXTENDS MemoryCache, Decisions, FiniteSetTheorems, WellFoundedInduction, TLAPS

-----------------------------------------------------------------------------
(* Numbers and folds. The library's induction theorems take an operator    *)
(* and cannot be applied here; a least counterexample serves instead.      *)

\* A set of naturals has a least element.
LEMMA LeastNatural ==
  ASSUME NEW N \in SUBSET Nat, N # {}
  PROVE  \E n \in N : \A m \in N : n <= m
<1> DEFINE less == OpToRel(<, Nat)
<1>1. IsWellFoundedOn(less, Nat)
  BY NatLessThanWellFounded
<1>2. \A x, y \in Nat : <<y, x>> \in less <=> y < x
  BY SMT DEF OpToRel
<1> HIDE DEF less
<1>3. PICK n \in N : \A m \in N : ~ (<<m, n>> \in less)
  BY <1>1, WFMin
<1>4. ASSUME NEW m \in N PROVE n <= m
  <2>1. n \in Nat /\ m \in Nat /\ ~ (m < n)
    BY <1>2, <1>3
  <2>q. QED
    BY <2>1, SMT
<1>q. QED
  BY <1>4

\* A set with 0 and the successor of each of its numbers below n has all up to n.
LEMMA AllUpTo ==
  ASSUME NEW n \in Nat, NEW S, 0 \in S, \A k \in 1 .. n : k - 1 \in S => k \in S
  PROVE  \A k \in 0 .. n : k \in S
<1> DEFINE N == (0 .. n) \ S
<1> SUFFICES ASSUME N # {} PROVE FALSE
  OBVIOUS
<1>1. N \in SUBSET Nat
  OBVIOUS
<1>2. PICK k \in N : \A m \in N : k <= m
  BY <1>1, LeastNatural, Zenon
<1>3. k \in 1 .. n /\ k - 1 \in 0 .. n /\ ~(k <= k - 1)
  OBVIOUS
<1>4. k - 1 \in S
  BY <1>2, <1>3
<1>q. QED
  BY <1>3, <1>4

\* The greatest of some numbers up to m, m among them, is m.
LEMMA MaxIs ==
  ASSUME NEW m \in Nat, NEW s \in SUBSET (1 .. m), m \in s
  PROVE  Max(s) = m
<1>1. m \in s /\ \A y \in s : m >= y
  OBVIOUS
<1>2. \E x \in s : \A y \in s : x >= y
  BY <1>1
<1>3. Max(s) \in s /\ \A y \in s : Max(s) >= y
  BY <1>2 DEF Max
<1>4. Max(s) \in 1 .. m /\ Max(s) >= m
  BY <1>1, <1>3
<1>q. QED
  BY <1>4

\* The function by which a fold from the left is defined exists: base on nothing,
\* st[<<largest, value on the rest>>] on anything else.
Folds(g, st, base, m) ==
  /\ g[{}] = base
  /\ \A s \in SUBSET (1 .. m) : s # {} => Max(s) \in s /\ g[s] = st[<<Max(s), g[s \ {Max(s)}]>>]

\* The function by which a fold from the left is defined exists.
LEMMA FoldExists ==
  ASSUME NEW n \in Nat, NEW V, NEW base \in V, NEW st \in [(1 .. n) \X V -> V]
  PROVE  \E g \in [SUBSET (1 .. n) -> V] : Folds(g, st, base, n)
<1> DEFINE S == {m \in 0 .. n : \E g \in [SUBSET (1 .. m) -> V] : Folds(g, st, base, m)}
<1>1. 0 \in S
  <2> DEFINE g == [s \in SUBSET (1 .. 0) |-> base]
  <2>1. g \in [SUBSET (1 .. 0) -> V]
    OBVIOUS
  <2>2. 1 .. 0 = {}
    OBVIOUS
  <2>3. Folds(g, st, base, 0)
    BY <2>2 DEF Folds
  <2>q. QED
    BY <2>1, <2>3
<1>2. ASSUME NEW m \in 1 .. n, m - 1 \in S PROVE m \in S
  <2>1. PICK g \in [SUBSET (1 .. (m - 1)) -> V] : Folds(g, st, base, m - 1)
    BY <1>2
  <2>2. \A s \in SUBSET (1 .. m) : /\ m \notin s => s \in SUBSET (1 .. (m - 1))
                                   /\ s \ {m} \in SUBSET (1 .. (m - 1))
    OBVIOUS
  <2> DEFINE h == [s \in SUBSET (1 .. m) |-> IF m \in s THEN st[<<m, g[s \ {m}]>>] ELSE g[s]]
  <2>3. h \in [SUBSET (1 .. m) -> V]
    BY <2>1, <2>2
  <2>4. h[{}] = base
    BY <2>1 DEF Folds
  <2>5. ASSUME NEW s \in SUBSET (1 .. m), s # {}
        PROVE  Max(s) \in s /\ h[s] = st[<<Max(s), h[s \ {Max(s)}]>>]
    <3>1. CASE m \in s
      <4>1. Max(s) = m
        BY <3>1, MaxIs
      <4>2. h[s \ {m}] = g[s \ {m}] /\ h[s] = st[<<m, g[s \ {m}]>>]
        BY <3>1
      <4>q. QED
        BY <3>1, <4>1, <4>2
    <3>2. CASE m \notin s
      <4>1. s \in SUBSET (1 .. (m - 1))
        BY <2>2, <3>2
      <4>2. Max(s) \in s /\ g[s] = st[<<Max(s), g[s \ {Max(s)}]>>]
        BY <2>1, <2>5, <4>1 DEF Folds
      <4>3. h[s] = g[s] /\ h[s \ {Max(s)}] = g[s \ {Max(s)}]
        BY <3>2
      <4>q. QED
        BY <4>2, <4>3
    <3>q. QED
      BY <3>1, <3>2
  <2>6. Folds(h, st, base, m)
    BY <2>4, <2>5 DEF Folds
  <2> HIDE DEF h
  <2>7. m \in 0 .. n
    OBVIOUS
  <2>q. QED
    BY <2>3, <2>6, <2>7
<1> HIDE DEF S
<1>3. n \in S
  BY <1>1, <1>2, AllUpTo
<1>q. QED
  BY <1>3 DEF S

\* A sequence of values given step by step exists.
IsSteps(a, n, V, base, st) ==
  a \in [0 .. n -> V] /\ a[0] = base /\ \A k \in 1 .. n : a[k] = st[a[k - 1]]

\* There is a sequence of values given step by step.
LEMMA StepsExist ==
  ASSUME NEW n \in Nat, NEW V, NEW base \in V, NEW st \in [V -> V]
  PROVE  \E a : IsSteps(a, n, V, base, st)
<1> DEFINE S == {m \in 0 .. n : \E a : IsSteps(a, m, V, base, st)}
<1>1. 0 \in S
  <2> DEFINE a == [k \in 0 .. 0 |-> base]
  <2>1. IsSteps(a, 0, V, base, st)
    BY DEF IsSteps
  <2> HIDE DEF a
  <2>q. QED
    BY <2>1
<1>2. ASSUME NEW m \in 1 .. n, m - 1 \in S PROVE m \in S
  <2>1. PICK a : IsSteps(a, m - 1, V, base, st)
    BY <1>2
  <2> USE DEF IsSteps
  <2> DEFINE b == [k \in 0 .. m |-> IF k = m THEN st[a[m - 1]] ELSE a[k]]
  <2>2. b \in [0 .. m -> V]
    BY <2>1
  <2>3. b[0] = base
    BY <2>1
  <2>4. \A k \in 1 .. m : b[k] = st[b[k - 1]]
    BY <2>1
  <2> HIDE DEF b
  <2>5. m \in 0 .. n
    OBVIOUS
  <2>q. QED
    BY <2>2, <2>3, <2>4, <2>5
<1> HIDE DEF S
<1>3. n \in S
  BY <1>1, <1>2, AllUpTo
<1>q. QED
  BY <1>3 DEF S

-----------------------------------------------------------------------------
(* Sums over finite sets.                                                  *)

\* The element that the fold takes next.
Chosen(S) == CHOOSE x \in S : TRUE

\* The function by which the fold is defined.
IsSum(g, f, K) ==
  g = [s \in SUBSET K |-> IF s = {} THEN 0 ELSE f[Chosen(s)] + g[s \ {Chosen(s)}]]

\* The library's sum is the value of such a function.
LEMMA SumUnfolded ==
  ASSUME NEW f, NEW K
  PROVE  SumFunctionOnSet(f, K) = (CHOOSE g : IsSum(g, f, K))[K]
BY DEF SumFunctionOnSet, FoldFunctionOnSet, IsSum, Chosen, MapThenFoldSet

\* Of the finite sets in a collection one is smallest.
LEMMA SmallestSet ==
  ASSUME NEW C, C # {}, \A S \in C : IsFiniteSet(S)
  PROVE  \E S \in C : \A T \in C : Cardinality(S) <= Cardinality(T)
<1> DEFINE N == {Cardinality(S) : S \in C}
<1>1. N \in SUBSET Nat /\ N # {}
  BY FS_CardinalityType
<1>2. PICK n \in N : \A m \in N : n <= m
  BY <1>1, LeastNatural
<1>q. QED
  BY <1>2

\* A finite set without one of its elements is smaller.
LEMMA WithoutElement ==
  ASSUME NEW S, IsFiniteSet(S), NEW x \in S
  PROVE  /\ IsFiniteSet(S \ {x})
         /\ ~(Cardinality(S) <= Cardinality(S \ {x}))
<1>1. /\ IsFiniteSet(S \ {x}) /\ Cardinality(S \ {x}) = Cardinality(S) - 1
      /\ Cardinality(S) \in Nat
  BY FS_RemoveElement, FS_CardinalityType
<1>q. QED
  BY <1>1

\* The element taken next is one of the set.
LEMMA ChosenIn == \A S : S # {} => Chosen(S) \in S
BY DEF Chosen

\* What such a function is at a subset.
LEMMA SumAt ==
  ASSUME NEW g, NEW f, NEW K, IsSum(g, f, K), NEW s \in SUBSET K
  PROVE  g[s] = IF s = {} THEN 0 ELSE f[Chosen(s)] + g[s \ {Chosen(s)}]
BY DEF IsSum

\* Two such functions agree where both are defined.
LEMMA SumUnique ==
  ASSUME NEW f, NEW A, NEW B, NEW g, NEW h, IsSum(g, f, A), IsSum(h, f, B),
         NEW u, u \subseteq A, u \subseteq B, IsFiniteSet(u)
  PROVE  g[u] = h[u]
<1> DEFINE C == {s \in SUBSET u : g[s] # h[s]}
<1> SUFFICES ASSUME C # {} PROVE FALSE
  OBVIOUS
<1>1. \A s \in C : IsFiniteSet(s)
  BY FS_Subset
<1>2. PICK s \in C : \A t \in C : Cardinality(s) <= Cardinality(t)
  BY <1>1, SmallestSet
<1>3. s \in SUBSET A /\ s \in SUBSET B /\ g[s] # h[s] /\ s \subseteq u
  OBVIOUS
<1>4. s # {}
  BY <1>3, SumAt
<1>5. Chosen(s) \in s
  BY <1>4, ChosenIn
<1>6. ~(s \ {Chosen(s)} \in C)
  BY <1>1, <1>2, <1>5, WithoutElement
<1>7. g[s \ {Chosen(s)}] = h[s \ {Chosen(s)}]
  BY <1>3, <1>6
<1>8. /\ g[s] = f[Chosen(s)] + g[s \ {Chosen(s)}]
      /\ h[s] = f[Chosen(s)] + h[s \ {Chosen(s)}]
  BY <1>3, <1>4, SumAt
<1>q. QED
  BY <1>3, <1>7, <1>8

\* There is such a function for every finite set.
LEMMA SumExists ==
  ASSUME NEW f, NEW K, IsFiniteSet(K)
  PROVE  \E g : IsSum(g, f, K)
<1> DEFINE C == {s \in SUBSET K : ~ \E g : IsSum(g, f, s)}
<1> SUFFICES ASSUME C # {} PROVE FALSE
  OBVIOUS
<1>1. \A s \in C : IsFiniteSet(s)
  BY FS_Subset
<1>2. PICK t \in C : \A s \in C : Cardinality(t) <= Cardinality(s)
  BY <1>1, SmallestSet
<1>3. IsFiniteSet(t) /\ t \subseteq K /\ ~ \E g : IsSum(g, f, t)
  BY <1>1
<1> DEFINE G(s) == CHOOSE g : IsSum(g, f, s)
           h == [s \in SUBSET t |->
                  IF s = {} THEN 0
                  ELSE f[Chosen(s)] + G(s \ {Chosen(s)})[s \ {Chosen(s)}]]
<1>4. ASSUME NEW s \in SUBSET t, s # t
      PROVE  IsFiniteSet(s) /\ IsSum(G(s), f, s)
  <2>1. IsFiniteSet(s) /\ Cardinality(s) \in Nat /\ Cardinality(t) \in Nat
        /\ Cardinality(s) <= Cardinality(t) /\ Cardinality(s) # Cardinality(t)
    BY <1>3, <1>4, FS_Subset, FS_CardinalityType
  <2>2. s \notin C
    BY <1>2, <2>1
  <2>3. \E g : IsSum(g, f, s)
    BY <1>3, <2>2
  <2>q. QED
    BY <2>1, <2>3
<1> HIDE DEF G
<1>5. ASSUME NEW v \in SUBSET t, v # t
      PROVE  h[v] = G(v)[v]
  <2>1. IsFiniteSet(v) /\ IsSum(G(v), f, v)
    BY <1>4, <1>5
  <2>2. CASE v = {}
    BY <2>1, <2>2, SumAt
  <2>3. CASE v # {}
    <3> DEFINE w == v \ {Chosen(v)}
    <3>1. Chosen(v) \in v /\ w \subseteq v /\ w \in SUBSET t /\ w # t
      BY <2>3, ChosenIn
    <3>2. IsFiniteSet(w) /\ IsSum(G(w), f, w)
      BY <1>4, <3>1
    <3>3. G(v)[w] = G(w)[w]
      BY <2>1, <3>1, <3>2, SumUnique
    <3>4. G(v)[v] = f[Chosen(v)] + G(v)[w]
      BY <2>1, <2>3, SumAt
    <3>5. h[v] = f[Chosen(v)] + G(w)[w]
      BY <2>3
    <3>q. QED
      BY <3>3, <3>4, <3>5
  <2>q. QED
    BY <2>2, <2>3
<1>6. ASSUME NEW s \in SUBSET t, s # {}
      PROVE  h[s] = f[Chosen(s)] + h[s \ {Chosen(s)}]
  <2>1. Chosen(s) \in s /\ s \ {Chosen(s)} \in SUBSET t /\ s \ {Chosen(s)} # t
    BY <1>6, ChosenIn
  <2>2. h[s \ {Chosen(s)}] = G(s \ {Chosen(s)})[s \ {Chosen(s)}]
    BY <1>5, <2>1
  <2>3. h[s] = f[Chosen(s)] + G(s \ {Chosen(s)})[s \ {Chosen(s)}]
    BY <1>6
  <2>q. QED
    BY <2>2, <2>3
<1>7. \A s \in SUBSET t : s = {} => h[s] = 0
  OBVIOUS
<1>8. h = [s \in SUBSET t |-> h[s]]
  OBVIOUS
<1> HIDE DEF h
<1>9. IsSum(h, f, t)
  <2>1. \A s \in SUBSET t : h[s] = IF s = {} THEN 0 ELSE f[Chosen(s)] + h[s \ {Chosen(s)}]
    BY <1>6, <1>7
  <2>q. QED
    BY <1>8, <2>1 DEF IsSum
<1>q. QED
  BY <1>3, <1>9

\* The sum over nothing, and over something by the element taken first.
LEMMA SumByChosen ==
  ASSUME NEW f, NEW K, IsFiniteSet(K)
  PROVE  SumFunctionOnSet(f, K) = IF K = {} THEN 0
                         ELSE f[Chosen(K)] + SumFunctionOnSet(f, K \ {Chosen(K)})
<1> DEFINE g == CHOOSE g : IsSum(g, f, K)
           R == K \ {Chosen(K)}
           h == CHOOSE h : IsSum(h, f, R)
<1>1. IsSum(g, f, K)
  BY SumExists
<1>2. IsFiniteSet(R) /\ R \subseteq K
  BY FS_Subset
<1>3. IsSum(h, f, R)
  BY <1>2, SumExists
<1>4. SumFunctionOnSet(f, K) = g[K] /\ SumFunctionOnSet(f, R) = h[R]
  BY SumUnfolded
<1> HIDE DEF g, h
<1>5. g[R] = h[R]
  BY <1>1, <1>2, <1>3, SumUnique
<1>6. g[K] = IF K = {} THEN 0 ELSE f[Chosen(K)] + g[R]
  BY <1>1, SumAt
<1>q. QED
  BY <1>4, <1>5, <1>6

\* The sum of integers is an integer, of naturals a natural number.
LEMMA SumIn ==
  ASSUME NEW N \in {Nat, Int}, NEW f, NEW K, IsFiniteSet(K), \A k \in K : f[k] \in N
  PROVE  SumFunctionOnSet(f, K) \in N
<1> DEFINE C == {s \in SUBSET K : SumFunctionOnSet(f, s) \notin N}
<1> SUFFICES ASSUME C # {} PROVE FALSE
  OBVIOUS
<1>1. \A s \in C : IsFiniteSet(s)
  BY FS_Subset
<1>2. PICK s \in C : \A t \in C : Cardinality(s) <= Cardinality(t)
  BY <1>1, SmallestSet
<1>3. IsFiniteSet(s) /\ s \subseteq K /\ SumFunctionOnSet(f, s) \notin N
  BY <1>1
<1>4. s # {}
  <2>1. SumFunctionOnSet(f, {}) = 0
    BY FS_EmptySet, SumByChosen
  <2>q. QED
    BY <1>3, <2>1
<1>5. Chosen(s) \in s
  BY <1>4, ChosenIn
<1>6. s \ {Chosen(s)} \notin C
  BY <1>1, <1>2, <1>5, WithoutElement
<1>7. SumFunctionOnSet(f, s \ {Chosen(s)}) \in N /\ f[Chosen(s)] \in N
  BY <1>3, <1>5, <1>6
<1>8. SumFunctionOnSet(f, s) = f[Chosen(s)] + SumFunctionOnSet(f, s \ {Chosen(s)})
  BY <1>3, <1>4, SumByChosen
<1>q. QED
  BY <1>3, <1>7, <1>8

\* The sum depends on nothing but the values at its elements.
LEMMA SumFrame ==
  ASSUME NEW f, NEW g, NEW K, IsFiniteSet(K), \A k \in K : f[k] = g[k]
  PROVE  SumFunctionOnSet(f, K) = SumFunctionOnSet(g, K)
<1> DEFINE C == {s \in SUBSET K : SumFunctionOnSet(f, s) # SumFunctionOnSet(g, s)}
<1> SUFFICES ASSUME C # {} PROVE FALSE
  OBVIOUS
<1>1. \A s \in C : IsFiniteSet(s)
  BY FS_Subset
<1>2. PICK s \in C : \A t \in C : Cardinality(s) <= Cardinality(t)
  BY <1>1, SmallestSet
<1>3. IsFiniteSet(s) /\ s \subseteq K /\ SumFunctionOnSet(f, s) # SumFunctionOnSet(g, s)
  BY <1>1
<1>4. s # {}
  BY <1>3, SumByChosen
<1>5. Chosen(s) \in s
  BY <1>4, ChosenIn
<1>6. s \ {Chosen(s)} \notin C
  BY <1>1, <1>2, <1>5, WithoutElement
<1>7. /\ SumFunctionOnSet(f, s \ {Chosen(s)}) = SumFunctionOnSet(g, s \ {Chosen(s)})
      /\ f[Chosen(s)] = g[Chosen(s)]
  BY <1>3, <1>5, <1>6
<1>8. /\ SumFunctionOnSet(f, s) = f[Chosen(s)] + SumFunctionOnSet(f, s \ {Chosen(s)})
      /\ SumFunctionOnSet(g, s) = g[Chosen(s)] + SumFunctionOnSet(g, s \ {Chosen(s)})
  BY <1>3, <1>4, SumByChosen
<1>q. QED
  BY <1>3, <1>7, <1>8

\* Any element may be taken out of a sum, not only the one the fold takes.
LEMMA SumByElement ==
  ASSUME NEW f, NEW K, IsFiniteSet(K), \A k \in K : f[k] \in Int, NEW x \in K
  PROVE  SumFunctionOnSet(f, K) = f[x] + SumFunctionOnSet(f, K \ {x})
<1> DEFINE Holds(s) == \A y \in s : SumFunctionOnSet(f, s) = f[y] + SumFunctionOnSet(f, s \ {y})
           C == {s \in SUBSET K : ~Holds(s)}
<1> SUFFICES ASSUME C # {} PROVE FALSE
  OBVIOUS
<1>1. \A s \in C : IsFiniteSet(s)
  BY FS_Subset
<1>2. PICK s \in C : \A t \in C : Cardinality(s) <= Cardinality(t)
  BY <1>1, SmallestSet
<1>3. IsFiniteSet(s) /\ s \subseteq K /\ ~Holds(s)
  BY <1>1
<1>4. PICK y \in s : SumFunctionOnSet(f, s) # f[y] + SumFunctionOnSet(f, s \ {y})
  BY <1>3
<1> DEFINE c == Chosen(s)
<1>5. c \in s
  BY <1>4, ChosenIn
<1>6. SumFunctionOnSet(f, s) = f[c] + SumFunctionOnSet(f, s \ {c})
  BY <1>3, <1>4, SumByChosen
<1>7. y # c
  BY <1>4, <1>6
<1>8. s \ {c} \notin C /\ s \ {y} \notin C
  BY <1>1, <1>2, <1>4, <1>5, WithoutElement
<1>9. Holds(s \ {c}) /\ Holds(s \ {y})
  BY <1>3, <1>8
<1>10. y \in s \ {c} /\ c \in s \ {y} /\ (s \ {c}) \ {y} = (s \ {y}) \ {c}
  BY <1>4, <1>5, <1>7
<1> DEFINE r == SumFunctionOnSet(f, (s \ {c}) \ {y})
<1>11. SumFunctionOnSet(f, s \ {c}) = f[y] + r /\ SumFunctionOnSet(f, s \ {y}) = f[c] + r
  BY <1>9, <1>10
<1>12. r \in Int /\ f[y] \in Int /\ f[c] \in Int
  <2>1. IsFiniteSet((s \ {c}) \ {y}) /\ (s \ {c}) \ {y} \subseteq K
    BY <1>3, FS_Subset
  <2>q. QED
    BY <1>3, <1>4, <1>5, <2>1, SumIn
<1> HIDE DEF r, c
<1>q. QED
  BY <1>4, <1>6, <1>11, <1>12

-----------------------------------------------------------------------------
(* The memory cache.                                                       *)

\* The clock agrees with the order of uses.
ClockOrdered ==
  /\ \A k \in Keys : lastAccess[k] <= now /\ usedAt[k] <= ops
  /\ \A j, k \in Keys : usedAt[j] < usedAt[k] => lastAccess[j] <= lastAccess[k]

\* Two entries were never used by the same operation.
UsesApart == \A j, k \in entries : usedAt[j] = usedAt[k] => j = k

\* While a put is under way it is the latest operation, no entry is of its
\* key and none was used since it began.
PutLatest ==
  putting # Idle => putting \notin entries /\ \A k \in entries : usedAt[k] < ops

IInv == TypeOK /\ ClockOrdered /\ UsesApart /\ PutLatest

\* Sizes are natural numbers, that of no entry included.
LEMMA SizesAreNaturals == \A s \in Sizes \cup {0} : s \in Nat
BY SizesAssumption

\* The initial state satisfies the invariant.
LEMMA InitInv == Init => IInv
<1> SUFFICES ASSUME Init PROVE IInv
  OBVIOUS
<1> USE SizesAssumption, BudgetAssumption, IdleAssumption DEF Init
<1>1. TypeOK
  BY DEF TypeOK
<1>2. ClockOrdered
  BY DEF ClockOrdered
<1>3. UsesApart /\ PutLatest
  BY DEF UsesApart, PutLatest
<1>q. QED
  BY <1>1, <1>2, <1>3 DEF IInv

\* Every step keeps the invariant.
LEMMA NextInv == IInv /\ [Next]_vars => IInv'
<1> SUFFICES ASSUME IInv, [Next]_vars PROVE IInv'
  OBVIOUS
<1> USE SizesAssumption, BudgetAssumption, IdleAssumption
  DEF IInv, cacheVars, putVars, Begin, Use, TypeOK, ClockOrdered, UsesApart, PutLatest
<1>1. ASSUME NEW k \in Keys, Get(k) PROVE IInv'
  BY <1>1 DEF Get
<1>2. ASSUME NEW k \in Keys, RemoveEntry(k) PROVE IInv'
  BY <1>2 DEF RemoveEntry
<1>3. ASSUME NEW k \in Keys, MarkPlaying(k) PROVE IInv'
  BY <1>3 DEF MarkPlaying
<1>4. ASSUME NEW k \in Keys, MarkNotPlaying(k) PROVE IInv'
  BY <1>4 DEF MarkNotPlaying
<1>5. ASSUME NEW k \in Keys, NEW n \in Sizes, PutBegins(k, n) PROVE IInv'
  <2>1. /\ putting = Idle /\ ops' = ops + 1 /\ ops < MaxOps
        /\ putting' = k /\ putSize' = n /\ entries' = entries \ {k}
        /\ UNCHANGED <<size, lastAccess, playing, now, usedAt>>
    BY <1>5 DEF PutBegins
  <2>2. currentSize' \in Int
    <3>1. size[k] \in Sizes \cup {0}
      BY Zenon
    <3>2. size[k] \in Nat
      BY <3>1, SizesAreNaturals, Zenon
    <3>q. QED
      BY <1>5, <3>2 DEF PutBegins
  <2>3. TypeOK'
    <3>1. ops' \in 0 .. MaxOps /\ entries' \subseteq Keys /\ playing' \subseteq entries' \cup {putting'}
      BY <2>1
    <3>2. putting' \in Keys \cup {Idle} /\ putSize' \in Sizes \cup {0}
      BY <2>1
    <3>q. QED
      BY <2>1, <2>2, <3>1, <3>2
  <2>4. ClockOrdered'
    BY <2>1
  <2>5. UsesApart' /\ PutLatest'
    BY <2>1
  <2>q. QED
    BY <2>3, <2>4, <2>5
<1>6. CASE EvictOne
  BY <1>6 DEF EvictOne, Oldest, Evictable
<1>7. CASE Insert
  <2>1. putting \in Keys /\ putSize \in Sizes \cup {0} /\ entries' = entries \cup {putting}
    BY <1>7 DEF Insert
  <2>2. /\ now' \in {now, now + 1}
        /\ lastAccess' = [lastAccess EXCEPT ![putting] = now']
        /\ usedAt' = [usedAt EXCEPT ![putting] = ops]
        /\ ops' = ops /\ putting' = Idle
    BY <1>7 DEF Insert
  <2>3. TypeOK'
    BY <1>7, <2>1, <2>2 DEF Insert
  <2>4. ClockOrdered'
    BY <2>1, <2>2
  <2>5. UsesApart' /\ PutLatest'
    BY <2>1, <2>2
  <2>q. QED
    BY <2>3, <2>4, <2>5
<1>8. CASE Clear
  BY <1>8 DEF Clear
<1>9. CASE UNCHANGED vars
  BY <1>9 DEF vars
<1>q. QED
  BY <1>1, <1>2, <1>3, <1>4, <1>5, <1>6, <1>7, <1>8, <1>9 DEF Next

\* The invariant holds in every reachable state.
LEMMA Invariance == Spec => []IInv
<1>1. Init => IInv
  BY InitInv
<1>2. IInv /\ [Next]_vars => IInv'
  BY NextInv
<1>q. QED
  BY <1>1, <1>2, PTL DEF Spec

\* Every variable keeps to its values: nothing is marked as playing that is
\* neither cached nor being replaced.
THEOREM TypeCorrect == Spec => []TypeOK
<1>1. IInv => TypeOK
  BY DEF IInv
<1>q. QED
  BY <1>1, Invariance, PTL

\* A put ends within the budget, or with nothing left that it may evict.
THEOREM PutsKeepBudget == Spec => BudgetKept
<1>1. IInv /\ [Next]_vars =>
        [putting # Idle /\ putting' = Idle =>
           MaxSize = 0 \/ currentSize' <= MaxSize \/ entries' \subseteq playing \cup {putting}]_vars
  <2> SUFFICES ASSUME IInv, Next, putting # Idle, putting' = Idle
               PROVE MaxSize = 0 \/ currentSize' <= MaxSize \/ entries' \subseteq playing \cup {putting}
    OBVIOUS
  <2>1. Insert
    BY DEF Next, Get, RemoveEntry, MarkPlaying, MarkNotPlaying, PutBegins, EvictOne, Clear, Begin, putVars
  <2>q. QED
    BY <2>1 DEF Insert, Fits, Evictable
<1>q. QED
  BY <1>1, Invariance, PTL DEF Spec, BudgetKept

\* No put removes a sample that is marked as playing.
THEOREM PutsKeepPlaying == Spec => PlayingStays
<1>1. [Next]_vars => [putting # Idle => entries \cap playing \subseteq entries']_vars
  <2> SUFFICES ASSUME Next, putting # Idle PROVE entries \cap playing \subseteq entries'
    OBVIOUS
  <2>1. EvictOne \/ Insert
    BY DEF Next, Get, RemoveEntry, MarkPlaying, MarkNotPlaying, PutBegins, Clear, Begin
  <2>q. QED
    BY <2>1 DEF EvictOne, Insert, Oldest, Evictable
<1>q. QED
  BY <1>1, PTL DEF Spec, PlayingStays

\* What a put evicts was used before everything it could have evicted instead.
THEOREM PutsEvictOldest == Spec => LeastRecentGoes
<1> DEFINE Older == \A k \in entries \ entries', j \in entries' \ playing :
                      usedAt[k] < usedAt[j] \/ lastAccess[k] = lastAccess[j]
<1>1. IInv /\ [Next]_vars => [putting # Idle => Older]_vars
  <2> SUFFICES ASSUME IInv, Next, putting # Idle,
                      NEW k \in entries \ entries', NEW j \in entries' \ playing
               PROVE usedAt[k] < usedAt[j] \/ lastAccess[k] = lastAccess[j]
    OBVIOUS
  <2>1. EvictOne
    BY DEF Next, Get, RemoveEntry, MarkPlaying, MarkNotPlaying, PutBegins, Clear, Insert, Begin
  <2>2. k \in Keys /\ j \in Keys /\ j \in Evictable /\ j # k /\ j \in entries
    BY <2>1 DEF EvictOne, Evictable, Oldest, IInv, TypeOK
  <2>3. lastAccess[k] <= lastAccess[j]
    BY <2>1, <2>2 DEF EvictOne, Oldest
  <2>4. usedAt[k] # usedAt[j]
    BY <2>2 DEF IInv, UsesApart
  <2>5. lastAccess[k] \in Nat /\ lastAccess[j] \in Nat /\ usedAt[k] \in Nat /\ usedAt[j] \in Nat
    BY <2>2, BudgetAssumption DEF IInv, TypeOK
  <2>6. usedAt[j] < usedAt[k] => lastAccess[j] <= lastAccess[k]
    BY <2>2 DEF IInv, ClockOrdered
  <2>q. QED
    BY <2>3, <2>4, <2>5, <2>6
<1>q. QED
  BY <1>1, Invariance, PTL DEF Spec, LeastRecentGoes

\* For any budget and clock a put makes room by what does not play, the least
\* recently used first.
THEOREM EvictionIsFair == Spec => EvictionFair
<1>1. PlayingStays /\ LeastRecentGoes => EvictionFair
  BY DEF EvictionFair
<1>2. QED BY <1>1, PutsKeepPlaying, PutsEvictOldest, PTL

\* The total is exact, and of finitely many entries.
Exact == IsFiniteSet(entries) /\ currentSize = SumFunctionOnSet(size, entries)

\* What is proved of the total is what the run checks.
LEMMA ExactIsSizeExact == Exact => SizeExact
BY DEF Exact, SizeExact, Bytes

\* Without one of the entries the total is less by its bytes.
LEMMA WithoutEntry ==
  ASSUME IInv, Exact, NEW k \in entries
  PROVE  /\ IsFiniteSet(entries \ {k})
         /\ currentSize - size[k] = SumFunctionOnSet(size, entries \ {k})
<1>1. IsFiniteSet(entries \ {k})
  BY FS_Subset DEF Exact
<1>2. \A j \in entries : size[j] \in Nat
  <2>1. \A j \in entries : size[j] \in Sizes \cup {0}
    BY DEF IInv, TypeOK
  <2>q. QED
    BY <2>1, SizesAreNaturals
<1>3. SumFunctionOnSet(size, entries) = size[k] + SumFunctionOnSet(size, entries \ {k})
  BY <1>2, SumByElement DEF Exact
<1>4. SumFunctionOnSet(size, entries \ {k}) \in Nat
  BY <1>1, <1>2, SumIn
<1>q. QED
  BY <1>1, <1>2, <1>3, <1>4 DEF Exact

\* With the entry that a put brings the total is more by its bytes, whatever
\* its key held before.
LEMMA WithEntry ==
  ASSUME IInv, Exact, putting # Idle
  PROVE  LET after == [size EXCEPT ![putting] = putSize]
         IN  /\ IsFiniteSet(entries \cup {putting})
             /\ currentSize + putSize = SumFunctionOnSet(after, entries \cup {putting})
<1> DEFINE after == [size EXCEPT ![putting] = putSize]
           all == entries \cup {putting}
<1>1. IsFiniteSet(all)
  BY FS_AddElement DEF Exact
<1>2. putting \in Keys /\ putting \notin entries /\ entries \subseteq Keys
  BY DEF IInv, TypeOK, PutLatest
<1>3. size \in [Keys -> Sizes \cup {0}] /\ putSize \in Sizes \cup {0}
  BY DEF IInv, TypeOK
<1>4. after[putting] = putSize /\ \A j \in entries : after[j] = size[j]
  BY <1>2, <1>3
<1>5. \A j \in all : after[j] \in Nat
  <2>1. \A j \in entries : size[j] \in Sizes \cup {0}
    BY <1>2, <1>3
  <2>q. QED
    BY <1>3, <1>4, <2>1, SizesAreNaturals
<1>6. all \ {putting} = entries
  BY <1>2
<1> HIDE DEF after
<1>7. SumFunctionOnSet(after, all) = after[putting] + SumFunctionOnSet(after, entries)
  BY <1>1, <1>5, <1>6, SumByElement
<1>8. SumFunctionOnSet(after, entries) = SumFunctionOnSet(size, entries)
  BY <1>4, SumFrame DEF Exact
<1>9. putSize \in Nat /\ currentSize \in Int
  BY <1>3, SizesAreNaturals DEF IInv, TypeOK
<1>10. currentSize + putSize = SumFunctionOnSet(after, all)
  BY <1>4, <1>7, <1>8, <1>9 DEF Exact
<1>q. QED
  BY <1>1, <1>10 DEF after

\* Every step keeps the total exact.
LEMMA NextExact == IInv /\ Exact /\ [Next]_vars => Exact'
<1> SUFFICES ASSUME IInv, Exact, [Next]_vars PROVE Exact'
  OBVIOUS
<1>k. ASSUME UNCHANGED <<entries, size, currentSize>> PROVE Exact'
  BY <1>k DEF Exact
<1>r. ASSUME NEW k \in entries, entries' = entries \ {k},
             currentSize' = currentSize - size[k], size' = size
      PROVE  Exact'
  BY <1>r, WithoutEntry DEF Exact
<1>1. ASSUME NEW k \in Keys, Get(k) \/ MarkPlaying(k) \/ MarkNotPlaying(k) PROVE Exact'
  BY <1>1, <1>k DEF Get, MarkPlaying, MarkNotPlaying, putVars
<1>2. ASSUME NEW k \in Keys, RemoveEntry(k) PROVE Exact'
  BY <1>2, <1>r DEF RemoveEntry
<1>3. ASSUME NEW k \in Keys, NEW n \in Sizes, PutBegins(k, n) PROVE Exact'
  <2>1. CASE k \in entries
    BY <1>3, <1>r, <2>1 DEF PutBegins
  <2>2. CASE k \notin entries
    <3>1. entries \ {k} = entries
      BY <2>2
    <3>q. QED
      BY <1>3, <1>k, <2>2, <3>1 DEF PutBegins
  <2>q. QED
    BY <2>1, <2>2
<1>4. CASE EvictOne
  BY <1>4, <1>r DEF EvictOne
<1>5. CASE Insert
  BY <1>5, WithEntry DEF Insert, Exact
<1>6. CASE Clear
  <2>1. entries' = {} /\ currentSize' = 0
    BY <1>6 DEF Clear
  <2>2. IsFiniteSet({}) /\ SumFunctionOnSet(size', {}) = 0
    BY FS_EmptySet, SumByChosen
  <2>q. QED
    BY <2>1, <2>2 DEF Exact
<1>7. CASE UNCHANGED vars
  BY <1>7, <1>k DEF vars, cacheVars
<1>q. QED
  BY <1>1, <1>2, <1>3, <1>4, <1>5, <1>6, <1>7 DEF Next

\* The empty cache adds up to nothing.
LEMMA ExactFromStart == Init => Exact
<1>1. IsFiniteSet({}) /\ SumFunctionOnSet(size, {}) = 0
  BY FS_EmptySet, SumByChosen
<1>q. QED
  BY <1>1 DEF Init, Exact

\* For any keys, sizes and budget the running total is what the entries add up
\* to, through replacement, eviction, removal and clearing.
THEOREM TotalIsExact == Spec => []SizeExact
BY ExactFromStart, NextExact, ExactIsSizeExact, Invariance, PTL DEF Spec

\* The running total is unsigned in the code: what replacement, eviction and
\* removal subtract from it is never more than it holds.
THEOREM TotalNeverNegative == Spec => [](currentSize \in Nat)
<1>1. IInv /\ Exact => currentSize \in Nat
  <2> SUFFICES ASSUME IInv, Exact PROVE currentSize \in Nat
    OBVIOUS
  <2>1. \A k \in entries : size[k] \in Nat
    BY SizesAreNaturals DEF IInv, TypeOK
  <2>q. QED
    BY <2>1, SumIn DEF Exact
<1>2. Spec => []Exact
  BY ExactFromStart, NextExact, Invariance, PTL DEF Spec
<1>q. QED
  BY <1>1, <1>2, Invariance, PTL

\* For any keys, sizes and budget what the cache believes to hold is what it
\* holds.
THEOREM AccountsAreKept == Spec => []AccountsKept
<1>1. TypeOK /\ SizeExact => AccountsKept
  BY DEF AccountsKept
<1>q. QED
  BY <1>1, TypeCorrect, TotalIsExact, PTL

-----------------------------------------------------------------------------
(* Loops: positions, and the weights of the frames that sound there.       *)

\* Remainders of numbers close to the modulus.
LEMMA Remainders ==
  ASSUME NEW d \in Nat \ {0}
  PROVE  /\ 0 % d = 0
         /\ 1 % d = IF d = 1 THEN 0 ELSE 1
         /\ \A m \in Nat : (m + 1) % d = IF m % d = d - 1 THEN 0 ELSE (m % d) + 1
<1>1. ASSUME NEW m \in Nat PROVE (m + 1) % d = IF m % d = d - 1 THEN 0 ELSE (m % d) + 1
  <2>1. PICK k \in Int, r \in 0 .. (d - 1) : m = d * k + r /\ m % d = r
    <3>1. m \div d \in Int /\ m % d \in 0 .. (d - 1) /\ m = d * (m \div d) + (m % d)
      BY Z3
    <3>q. QED
      BY <3>1
  <2>2. PICK j \in Int, s \in 0 .. (d - 1) : m + 1 = d * j + s /\ (m + 1) % d = s
    <3>1. /\ (m + 1) \div d \in Int /\ (m + 1) % d \in 0 .. (d - 1)
          /\ m + 1 = d * ((m + 1) \div d) + ((m + 1) % d)
      BY Z3
    <3>q. QED
      BY <3>1
  <2>3. PICK z \in Int : z = j - k
    OBVIOUS
  <2>4. d * z = r + 1 - s
    <3>1. d * (j - k) = d * j - d * k
      BY Z3
    <3>q. QED
      BY <2>1, <2>2, <2>3, <3>1, Z3
  <2>5. z <= 1
    BY <2>4, z >= 2 => d * z >= 2 * d, Z3
  <2>6. z >= 0
    BY <2>4, z <= -1 => d * z <= -d, Z3
  <2>7. z = 0 \/ z = 1
    BY <2>5, <2>6
  <2>8. CASE z = 0
    BY <2>1, <2>2, <2>4, <2>8
  <2>9. CASE z = 1
    BY <2>1, <2>2, <2>4, <2>9
  <2>q. QED
    BY <2>7, <2>8, <2>9
<1>2. 0 % d = 0
  OBVIOUS
<1>3. 1 % d = IF d = 1 THEN 0 ELSE 1
  OBVIOUS
<1>q. QED
  BY <1>1, <1>2, <1>3

\* A crossfade is in force when the loop is longer than two of it.
LEMMA CrossfadeIs ==
  ASSUME NEW n \in Nat \ {0}, NEW cf \in 0 .. n
  PROVE  LET f == Crossfade(n, cf)
         IN  f = 0 \/ (f = cf /\ cf \in Nat \ {0} /\ n > 2 * cf)
BY DEF Crossfade

\* The frame after, and before, a frame of the loop.
After(q, n, f) == IF q + 1 = n THEN f ELSE q + 1
Before(q, n, f) == IF q = 0 THEN n - f - 1 ELSE q - 1

\* wrap_loop_position leaves a frame of the loop where it is and leads from the
\* last one on to the first that is not part of the crossfade, and back.
LEMMA WrapIsStep ==
  ASSUME NEW n \in Nat \ {0}, NEW cf \in 0 .. n, NEW q \in 0 .. (n - 1)
  PROVE  /\ WrapLoopPosition(q, n, cf) = q
         /\ WrapLoopPosition(q + 1, n, cf) = After(q, n, Crossfade(n, cf))
         /\ WrapLoopPosition(q + (-1), n, cf) = Before(q, n, Crossfade(n, cf))
<1> DEFINE f == Crossfade(n, cf)
<1>1. f \in Nat /\ n - f \in Nat \ {0}
  BY CrossfadeIs
<1>2. 0 % (n - f) = 0 /\ 1 % (n - f) = IF n - f = 1 THEN 0 ELSE 1
  BY <1>1, Remainders
<1>3. n - f = 1 => n = 1 /\ f = 0
  BY CrossfadeIs
<1>4. WrapLoopPosition(q, n, cf) = q
  BY DEF WrapLoopPosition
<1>5. WrapLoopPosition(q + 1, n, cf) = After(q, n, f)
  <2>1. CASE q + 1 = n
    BY <1>1, <1>2, <2>1, n - n = 0 DEF WrapLoopPosition, After
  <2>2. CASE q + 1 # n
    BY <2>2 DEF WrapLoopPosition, After
  <2>q. QED
    BY <2>1, <2>2
<1>6. WrapLoopPosition(q + (-1), n, cf) = Before(q, n, f)
  <2>1. CASE q = 0
    BY <1>1, <1>2, <1>3, <2>1 DEF WrapLoopPosition, Before
  <2>2. CASE q # 0
    BY <2>2 DEF WrapLoopPosition, Before
  <2>q. QED
    BY <2>1, <2>2
<1>q. QED
  BY <1>4, <1>5, <1>6

\* The positions of a loop as the callback steps through them.
IsPath(a, p, n, cf, reverse, count) ==
  a = [i \in 1 .. count |->
        IF i = 1 THEN WrapLoopPosition(p, n, cf)
        ELSE WrapLoopPosition(a[i - 1] + (IF reverse THEN -1 ELSE 1), n, cf)]

Path(p, n, cf, reverse, count) == CHOOSE a : IsPath(a, p, n, cf, reverse, count)

\* The frames of a callback are what sounds along the path.
LEMMA FramesOfPath ==
  ASSUME NEW p, NEW n, NEW cf, NEW reverse, NEW count
  PROVE  PlainFrames(p, n, cf, reverse, count)
           = [i \in 1 .. count |-> Sounds(Path(p, n, cf, reverse, count)[i], n, cf, reverse)]
BY DEF PlainFrames, IsPath, Path

\* One frame on in the direction of play.
Onward(q, n, cf, reverse) ==
  IF reverse THEN Before(q, n, Crossfade(n, cf)) ELSE After(q, n, Crossfade(n, cf))

\* One frame on stays in the loop and is where wrap_loop_position leads.
LEMMA OnwardInLoop ==
  ASSUME NEW n \in Nat \ {0}, NEW cf \in 0 .. n, NEW q \in 0 .. (n - 1), NEW reverse \in BOOLEAN
  PROVE  /\ Onward(q, n, cf, reverse) \in 0 .. (n - 1)
         /\ WrapLoopPosition(q + (IF reverse THEN -1 ELSE 1), n, cf) = Onward(q, n, cf, reverse)
<1> DEFINE f == Crossfade(n, cf)
<1>1. f \in 0 .. (n - 1)
  BY CrossfadeIs
<1> HIDE DEF f
<1>2. After(q, n, f) \in 0 .. (n - 1) /\ Before(q, n, f) \in 0 .. (n - 1)
  BY <1>1 DEF After, Before
<1>3. Onward(q, n, cf, reverse) = IF reverse THEN Before(q, n, f) ELSE After(q, n, f)
  BY DEF Onward, f
<1>4. WrapLoopPosition(q + 1, n, cf) = After(q, n, f) /\ WrapLoopPosition(q + (-1), n, cf) = Before(q, n, f)
  BY WrapIsStep DEF f
<1>5. CASE reverse
  BY <1>2, <1>3, <1>4, <1>5
<1>6. CASE ~reverse
  BY <1>2, <1>3, <1>4, <1>6
<1>q. QED
  BY <1>5, <1>6

\* The path of a loop goes on frame by frame from its first position and stays
\* inside.
GoesOn(a, p, n, cf, reverse, count) ==
  /\ a[1] = p
  /\ \A i \in 1 .. count : a[i] \in 0 .. (n - 1)
  /\ \A i \in 1 .. (count - 1) : a[i + 1] = Onward(a[i], n, cf, reverse)

\* The path of a callback exists and goes on so, whatever its length.
LEMMA PathGoesOn ==
  ASSUME NEW n \in Nat \ {0}, NEW cf \in 0 .. n, NEW p \in 0 .. (n - 1),
         NEW reverse \in BOOLEAN, NEW count \in Nat \ {0}
  PROVE  GoesOn(Path(p, n, cf, reverse, count), p, n, cf, reverse, count)
<1> DEFINE V == 0 .. (n - 1)
           st == [q \in V |-> Onward(q, n, cf, reverse)]
           a == Path(p, n, cf, reverse, count)
           wrap(q) == WrapLoopPosition(q + (IF reverse THEN -1 ELSE 1), n, cf)
<1>1. st \in [V -> V]
  BY OnwardInLoop
<1>2. WrapLoopPosition(p, n, cf) = p
  BY WrapIsStep
<1>3. \A q \in V : wrap(q) = Onward(q, n, cf, reverse) /\ st[q] = Onward(q, n, cf, reverse)
  BY OnwardInLoop
<1>4. \E c : IsPath(c, p, n, cf, reverse, count)
  <2> HIDE DEF V, st
  <2>0. PICK b : IsSteps(b, count, V, p, st)
    <3>1. p \in V /\ count \in Nat
      BY DEF V
    <3>q. QED
      BY <1>1, <3>1, StepsExist
  <2>1. b \in [0 .. count -> V] /\ b[0] = p /\ \A k \in 1 .. count : b[k] = st[b[k - 1]]
    BY <2>0 DEF IsSteps
  <2> DEFINE c == [i \in 1 .. count |-> b[i - 1]]
  <2>2. ASSUME NEW i \in 1 .. count
        PROVE  c[i] = IF i = 1 THEN WrapLoopPosition(p, n, cf) ELSE wrap(c[i - 1])
    <3>1. CASE i = 1
      BY <1>2, <2>1, <3>1
    <3>2. CASE i # 1
      <4>1. i - 1 \in 1 .. count /\ (i - 1) - 1 \in 0 .. count /\ i - 1 \in 0 .. count
        BY <3>2
      <4>2. c[i] = b[i - 1] /\ c[i - 1] = b[(i - 1) - 1] /\ b[(i - 1) - 1] \in V
        BY <2>1, <4>1
      <4>3. b[i - 1] = st[b[(i - 1) - 1]]
        BY <2>1, <4>1
      <4> HIDE DEF c, wrap
      <4>q. QED
        BY <1>3, <3>2, <4>2, <4>3
    <3>q. QED
      BY <3>1, <3>2
  <2>3. c = [i \in 1 .. count |-> c[i]]
    OBVIOUS
  <2> HIDE DEF c
  <2>4. IsPath(c, p, n, cf, reverse, count)
    BY <2>2, <2>3 DEF IsPath
  <2>q. QED
    BY <2>4
<1>5. IsPath(a, p, n, cf, reverse, count)
  BY <1>4 DEF Path
<1> HIDE DEF a
<1>6. a[1] = p
  BY <1>2, <1>5 DEF IsPath
<1>7. \A i \in 1 .. (count - 1) : a[i + 1] = wrap(a[i])
  <2> SUFFICES ASSUME NEW i \in 1 .. (count - 1) PROVE a[i + 1] = wrap(a[i])
    OBVIOUS
  <2>1. i + 1 \in 1 .. count /\ i + 1 # 1 /\ (i + 1) - 1 = i
    OBVIOUS
  <2>q. QED
    BY <1>5, <2>1 DEF IsPath
<1> HIDE DEF V, st
<1> DEFINE S == {k \in 0 .. (count - 1) : a[k + 1] \in V}
<1>8. 0 \in S
  BY <1>6 DEF V
<1>9. ASSUME NEW k \in 1 .. (count - 1), k - 1 \in S PROVE k \in S
  <2>1. a[k] \in V /\ a[k + 1] = wrap(a[k])
    BY <1>7, <1>9
  <2>2. wrap(a[k]) \in V
    BY <1>1, <1>3, <2>1
  <2>q. QED
    BY <2>1, <2>2
<1>10. \A k \in 0 .. (count - 1) : k \in S
  <2> HIDE DEF S
  <2>q. QED
    BY <1>8, <1>9, AllUpTo
<1>11. ASSUME NEW i \in 1 .. count PROVE a[i] \in V
  <2>1. i - 1 \in 0 .. (count - 1) /\ (i - 1) + 1 = i
    OBVIOUS
  <2>q. QED
    BY <1>10, <2>1
<1>12. \A i \in 1 .. (count - 1) : a[i + 1] = Onward(a[i], n, cf, reverse)
  <2> SUFFICES ASSUME NEW i \in 1 .. (count - 1) PROVE a[i + 1] = Onward(a[i], n, cf, reverse)
    OBVIOUS
  <2>1. a[i] \in V
    BY <1>11
  <2> HIDE DEF wrap
  <2>q. QED
    BY <1>3, <1>7, <2>1
<1>q. QED
  BY <1>6, <1>11, <1>12 DEF V, a, GoesOn

\* The weight of a frame is that of the one pair it has.
LEMMA WeightByPair ==
  ASSUME NEW sounding, NEW frame, NEW w, {s \in sounding : s[1] = frame} = {<<frame, w>>}
  PROVE  WeightOf(frame, sounding) = w
<1> DEFINE same == {s \in sounding : s[1] = frame}
<1>1. same = {<<frame, w>>}
  OBVIOUS
<1> HIDE DEF same
<1>2. (CHOOSE s \in same : TRUE) = <<frame, w>> /\ same # {}
  BY <1>1
<1>3. WeightOf(frame, sounding) = IF same = {} THEN 0 ELSE (CHOOSE s \in same : TRUE)[2]
  BY DEF WeightOf, same
<1>4. <<frame, w>>[2] = w
  OBVIOUS
<1>5. WeightOf(frame, sounding) = <<frame, w>>[2]
  BY <1>2, <1>3, Zenon
<1>q. QED
  BY <1>4, <1>5, Zenon

\* A frame that does not sound has no weight.
LEMMA WeightOfNone ==
  ASSUME NEW sounding, NEW frame, {s \in sounding : s[1] = frame} = {}
  PROVE  WeightOf(frame, sounding) = 0
BY DEF WeightOf

\* The weight where one frame sounds.
LEMMA WeightOfOne ==
  ASSUME NEW a, NEW x, NEW frame
  PROVE  WeightOf(frame, {<<a, x>>}) = IF frame = a THEN x ELSE 0
<1>1. CASE frame = a
  <2>1. {s \in {<<a, x>>} : s[1] = frame} = {<<frame, x>>}
    BY <1>1
  <2>q. QED
    BY <1>1, <2>1, WeightByPair, Zenon
<1>2. CASE frame # a
  <2>1. {s \in {<<a, x>>} : s[1] = frame} = {}
    BY <1>2
  <2>q. QED
    BY <1>2, <2>1, WeightOfNone, Zenon
<1>q. QED
  BY <1>1, <1>2

OneOfTwo(frame, a, x, b, y) == IF frame = a THEN x ELSE IF frame = b THEN y ELSE 0

\* The weight where two different frames are blended.
LEMMA WeightOfTwo ==
  ASSUME NEW a, NEW x, NEW b, NEW y, a # b, NEW frame
  PROVE  WeightOf(frame, {<<a, x>>, <<b, y>>}) = OneOfTwo(frame, a, x, b, y)
<1> USE DEF OneOfTwo
<1>1. CASE frame = a
  <2>1. {s \in {<<a, x>>, <<b, y>>} : s[1] = frame} = {<<frame, x>>}
    BY <1>1
  <2>q. QED
    BY <1>1, <2>1, WeightByPair, Zenon
<1>2. CASE frame = b
  <2>1. {s \in {<<a, x>>, <<b, y>>} : s[1] = frame} = {<<frame, y>>}
    BY <1>2
  <2>2. WeightOf(frame, {<<a, x>>, <<b, y>>}) = y
    BY <2>1, WeightByPair, Zenon
  <2>q. QED
    BY <1>2, <2>2
<1>3. CASE frame # a /\ frame # b
  <2>1. {s \in {<<a, x>>, <<b, y>>} : s[1] = frame} = {}
    BY <1>3
  <2>2. WeightOf(frame, {<<a, x>>, <<b, y>>}) = 0
    BY <2>1, WeightOfNone, Zenon
  <2>q. QED
    BY <1>3, <2>2
<1>q. QED
  BY <1>1, <1>2, <1>3

\* The weight of a frame at a position of the loop.
Weight(frame, q, n, f, reverse) ==
  IF f = 0 THEN IF frame = q THEN 1 ELSE 0
  ELSE IF reverse
       THEN IF frame = q THEN IF q < f THEN q ELSE f
            ELSE IF q < f /\ frame = n - f + q THEN f - q ELSE 0
       ELSE IF frame = q THEN IF q >= n - f THEN n - q ELSE f
            ELSE IF q >= n - f /\ frame = q - (n - f) THEN frame ELSE 0

\* The weights are those that the loop sounds with at that position.
LEMMA SoundsWeigh ==
  ASSUME NEW n \in Nat \ {0}, NEW cf \in 0 .. n, NEW q \in 0 .. (n - 1),
         NEW reverse \in BOOLEAN, NEW frame \in Int
  PROVE  WeightOf(frame, Sounds(q, n, cf, reverse))
           = Weight(frame, q, n, Crossfade(n, cf), reverse)
<1> DEFINE f == Crossfade(n, cf)
<1>1. f = 0 \/ (f \in Nat \ {0} /\ n > 2 * f)
  BY CrossfadeIs
<1>2. CASE f = 0
  <2>1. Sounds(q, n, cf, reverse) = {<<q, 1>>}
    BY <1>2 DEF Sounds
  <2>2. WeightOf(frame, Sounds(q, n, cf, reverse))
          = IF frame = q THEN 1 ELSE 0
    <3>1. WeightOf(frame, {<<q, 1>>}) = IF frame = q THEN 1 ELSE 0
      BY <2>1, WeightOfOne, Zenon
    <3>q. QED
      BY <2>1, <3>1, Zenon
  <2>q. QED
    BY <1>2, <2>2 DEF Weight
<1>3. CASE f # 0 /\ reverse /\ q < f
  <2>1. Sounds(q, n, cf, reverse) = {<<q, q>>, <<n - f + q, f - q>>}
    BY <1>3 DEF Sounds
  <2>2. q # n - f + q
    BY <1>1
  <2>3. WeightOf(frame, Sounds(q, n, cf, reverse))
          = OneOfTwo(frame, q, q, n - f + q, f - q)
    <3>1. WeightOf(frame, {<<q, q>>, <<n - f + q, f - q>>}) = OneOfTwo(frame, q, q, n - f + q, f - q)
      BY <2>2, WeightOfTwo
    <3>q. QED
      BY <2>1, <3>1, Zenon
  <2>q. QED
    BY <1>3, <2>3 DEF Weight, OneOfTwo
<1>4. CASE f # 0 /\ reverse /\ ~(q < f)
  <2>1. Sounds(q, n, cf, reverse) = {<<q, f>>}
    BY <1>4 DEF Sounds
  <2>2. WeightOf(frame, Sounds(q, n, cf, reverse))
          = IF frame = q THEN f ELSE 0
    <3>1. WeightOf(frame, {<<q, f>>}) = IF frame = q THEN f ELSE 0
      BY <2>1, WeightOfOne, Zenon
    <3>q. QED
      BY <2>1, <3>1, Zenon
  <2>q. QED
    BY <1>4, <2>2 DEF Weight
<1>5. CASE f # 0 /\ ~reverse /\ q >= n - f
  <2> DEFINE into == q - (n - f)
  <2>1. Sounds(q, n, cf, reverse) = {<<q, f - into>>, <<into, into>>}
    BY <1>5 DEF Sounds
  <2>2. q # into /\ f - into = n - q
    BY <1>1
  <2>3. WeightOf(frame, Sounds(q, n, cf, reverse))
          = OneOfTwo(frame, q, f - into, into, into)
    <3>1. WeightOf(frame, {<<q, f - into>>, <<into, into>>}) = OneOfTwo(frame, q, f - into, into, into)
      BY <2>2, WeightOfTwo
    <3>q. QED
      BY <2>1, <3>1, Zenon
  <2>q. QED
    BY <1>5, <2>2, <2>3 DEF Weight, OneOfTwo
<1>6. CASE f # 0 /\ ~reverse /\ ~(q >= n - f)
  <2>1. Sounds(q, n, cf, reverse) = {<<q, f>>}
    BY <1>6 DEF Sounds
  <2>2. WeightOf(frame, Sounds(q, n, cf, reverse))
          = IF frame = q THEN f ELSE 0
    <3>1. WeightOf(frame, {<<q, f>>}) = IF frame = q THEN f ELSE 0
      BY <2>1, WeightOfOne, Zenon
    <3>q. QED
      BY <2>1, <3>1, Zenon
  <2>q. QED
    BY <1>6, <2>2 DEF Weight
<1>q. QED
  BY <1>2, <1>3, <1>4, <1>5, <1>6

\* From one frame of a crossfaded loop to the next no weight moves by more than a
\* step; without a crossfade the frame that sounds moves on by one.
LEMMA WeightMovesOn ==
  ASSUME NEW n \in Nat \ {0}, NEW f \in Nat, f = 0 \/ n > 2 * f,
         NEW q \in 0 .. (n - 1), NEW reverse \in BOOLEAN, NEW frame \in 0 .. (n - 1)
  PROVE  LET step == IF reverse THEN -1 ELSE 1
             last == IF reverse THEN 0 ELSE n - 1
             to   == IF reverse THEN Before(q, n, f) ELSE After(q, n, f)
             here  == Weight(frame, q, n, f, reverse)
             next == Weight(frame + step, to, n, f, reverse)
         IN  IF f = 0 THEN here = 1 /\ frame # last => next = 1
             ELSE here - next \in -1 .. 1
<1>1. CASE f = 0 /\ reverse
  BY <1>1 DEF Weight, Before
<1>2. CASE f = 0 /\ ~reverse
  BY <1>2 DEF Weight, After
<1>3. CASE f # 0 /\ reverse
  BY <1>3 DEF Weight, Before
<1>4. CASE f # 0 /\ ~reverse
  BY <1>4 DEF Weight, After
<1>q. QED
  BY <1>1, <1>2, <1>3, <1>4

\* What the daemon may be asked, and how it has answered.
DecisionInv ==
  /\ ask.kind = "text" => AskText
  /\ ask.kind = "http" => AskHttp
  /\ ask.kind = "target" => AskTarget
  /\ ask.kind = "config" => AskConfig
  /\ ask.kind = "file" => AskFile
  /\ ask.kind = "device" => AskDevice
  /\ ask.kind = "capture" => AskCapture
  /\ ask.kind = "output" => AskOutput
  /\ ask.kind = "listing" => AskListing
  /\ ask.kind = "loop" => AskLoop
  /\ ask.kind = "mix" => AskMix
  /\ ask.kind = "decode" => AskDecode
  /\ Answered("text") => answer = Received(Flattened(ask.command, ask.args, ask.use), Macros)
  /\ Answered("http") => answer = Received(HandlerPayload(ask.command, Obj(ask.args)), Macros)
  /\ Answered("target") => answer = Received(Flattened(ask.command, ask.args, Null), Macros)
  /\ Answered("config") => answer = MergeCliArgs(ask.config, ask.args)
  /\ Answered("file") =>
       answer = Precheck([allowed |-> ask.dirs, aliases |-> Aliases], ask.command, ask.path, ask.map)
  /\ Answered("device") =>
       answer = IF ask.input THEN GetInputDevice(ask.requested, ask.names, ask.later)
                ELSE FindOutputDevice(ask.requested, ask.names, ask.later)
  /\ Answered("capture") =>
       answer = CreateInputStream(ask.formats, DefaultFormat, ask.routes,
                  [channels |-> ask.wanted.channels, sample_rate |-> Unset,
                   latency_ms |-> ask.wanted.latency],
                  ask.wanted.rate, ask.wanted.size, ask.rejected)
  /\ Answered("output") =>
       answer = FindOutputConfig(ask.formats, ask.wanted.channels, ask.wanted.rate, ask.wanted.size)
  /\ Answered("listing") => answer = ProbeAlsaDevices(ask.hints, ask.failing)
  /\ Answered("loop") => answer = PlainFrames(ask.p, ask.n, ask.cf, ask.reverse, 2 * ask.n + 1)
  /\ Answered("mix") =>
       /\ Valid(ask.config)
       /\ answer = MixAudio(ask.parts, ask.width, BassOf(ask.config),
                            ChannelGains(ask.config, ask.width))
  /\ Answered("decode") => answer = DecodeNextChunks(ask.rates, ask.packets)

\* A question is of one kind.
LEMMA OneKind ==
  ASSUME DecisionInit
  PROVE  /\ ask.kind = "text" => AskText
         /\ ask.kind = "http" => AskHttp
         /\ ask.kind = "target" => AskTarget
         /\ ask.kind = "config" => AskConfig
         /\ ask.kind = "file" => AskFile
         /\ ask.kind = "device" => AskDevice
         /\ ask.kind = "capture" => AskCapture
         /\ ask.kind = "output" => AskOutput
         /\ ask.kind = "listing" => AskListing
         /\ ask.kind = "loop" => AskLoop
         /\ ask.kind = "mix" => AskMix
         /\ ask.kind = "decode" => AskDecode
<1>1. AskText => ask.kind = "text"
  BY DEF AskText
<1>2. AskHttp => ask.kind = "http"
  BY DEF AskHttp
<1>3. AskTarget => ask.kind = "target"
  BY DEF AskTarget
<1>4. AskConfig => ask.kind = "config"
  BY DEF AskConfig
<1>5. AskFile => ask.kind = "file"
  BY DEF AskFile
<1>6. AskDevice => ask.kind = "device"
  BY DEF AskDevice
<1>7. AskCapture => ask.kind = "capture"
  BY DEF AskCapture
<1>8. AskOutput => ask.kind = "output"
  BY DEF AskOutput
<1>9. AskListing => ask.kind = "listing"
  BY DEF AskListing
<1>10. AskLoop => ask.kind = "loop"
  BY DEF AskLoop
<1>11. AskMix => ask.kind = "mix"
  BY DEF AskMix
<1>12. AskDecode => ask.kind = "decode"
  BY DEF AskDecode
<1>q. QED
  BY <1>1, <1>2, <1>3, <1>4, <1>5, <1>6, <1>7, <1>8, <1>9, <1>10, <1>11, <1>12 DEF DecisionInit

\* It is answered as its kind is.
LEMMA AnsweredByKind ==
  ASSUME DecisionNext
  PROVE  /\ ask.kind = "text" => AnswerText
         /\ ask.kind = "http" => AnswerHttp
         /\ ask.kind = "target" => AnswerTarget
         /\ ask.kind = "config" => AnswerConfig
         /\ ask.kind = "file" => AnswerFile
         /\ ask.kind = "device" => AnswerDevice
         /\ ask.kind = "capture" => AnswerCapture
         /\ ask.kind = "output" => AnswerOutput
         /\ ask.kind = "listing" => AnswerListing
         /\ ask.kind = "loop" => AnswerLoop
         /\ ask.kind = "mix" => AnswerMix
         /\ ask.kind = "decode" => AnswerDecode
<1>1. ask.kind = "text" => AnswerText
  BY Zenon DEF DecisionNext, AnswerHttp, AnswerTarget, AnswerConfig, AnswerFile, AnswerDevice,
              AnswerCapture, AnswerOutput, AnswerListing, AnswerLoop, AnswerMix,
              AnswerDecode
<1>2. ask.kind = "http" => AnswerHttp
  BY Zenon DEF DecisionNext, AnswerText, AnswerTarget, AnswerConfig, AnswerFile, AnswerDevice,
              AnswerCapture, AnswerOutput, AnswerListing, AnswerLoop, AnswerMix,
              AnswerDecode
<1>3. ask.kind = "target" => AnswerTarget
  BY Zenon DEF DecisionNext, AnswerText, AnswerHttp, AnswerConfig, AnswerFile, AnswerDevice, AnswerCapture,
              AnswerOutput, AnswerListing, AnswerLoop, AnswerMix, AnswerDecode
<1>4. ask.kind = "config" => AnswerConfig
  BY Zenon DEF DecisionNext, AnswerText, AnswerHttp, AnswerTarget, AnswerFile, AnswerDevice, AnswerCapture,
              AnswerOutput, AnswerListing, AnswerLoop, AnswerMix, AnswerDecode
<1>5. ask.kind = "file" => AnswerFile
  BY Zenon DEF DecisionNext, AnswerText, AnswerHttp, AnswerTarget, AnswerConfig, AnswerDevice,
              AnswerCapture, AnswerOutput, AnswerListing, AnswerLoop, AnswerMix,
              AnswerDecode
<1>6. ask.kind = "device" => AnswerDevice
  BY Zenon DEF DecisionNext, AnswerText, AnswerHttp, AnswerTarget, AnswerConfig, AnswerFile, AnswerCapture,
              AnswerOutput, AnswerListing, AnswerLoop, AnswerMix, AnswerDecode
<1>7. ask.kind = "capture" => AnswerCapture
  BY Zenon DEF DecisionNext, AnswerText, AnswerHttp, AnswerTarget, AnswerConfig, AnswerFile, AnswerDevice,
              AnswerOutput, AnswerListing, AnswerLoop, AnswerMix, AnswerDecode
<1>8. ask.kind = "output" => AnswerOutput
  BY Zenon DEF DecisionNext, AnswerText, AnswerHttp, AnswerTarget, AnswerConfig, AnswerFile, AnswerDevice,
              AnswerCapture, AnswerListing, AnswerLoop, AnswerMix, AnswerDecode
<1>9. ask.kind = "listing" => AnswerListing
  BY Zenon DEF DecisionNext, AnswerText, AnswerHttp, AnswerTarget, AnswerConfig, AnswerFile, AnswerDevice,
              AnswerCapture, AnswerOutput, AnswerLoop, AnswerMix, AnswerDecode
<1>10. ask.kind = "loop" => AnswerLoop
  BY Zenon DEF DecisionNext, AnswerText, AnswerHttp, AnswerTarget, AnswerConfig, AnswerFile, AnswerDevice,
              AnswerCapture, AnswerOutput, AnswerListing, AnswerMix, AnswerDecode
<1>11. ask.kind = "mix" => AnswerMix
  BY Zenon DEF DecisionNext, AnswerText, AnswerHttp, AnswerTarget, AnswerConfig, AnswerFile, AnswerDevice,
              AnswerCapture, AnswerOutput, AnswerListing, AnswerLoop, AnswerDecode
<1>12. ask.kind = "decode" => AnswerDecode
  BY Zenon DEF DecisionNext, AnswerText, AnswerHttp, AnswerTarget, AnswerConfig, AnswerFile, AnswerDevice,
              AnswerCapture, AnswerOutput, AnswerListing, AnswerLoop, AnswerMix
<1>q. QED
  BY <1>1, <1>2, <1>3, <1>4, <1>5, <1>6, <1>7, <1>8, <1>9, <1>10, <1>11, <1>12

\* Every state is such a state.
LEMMA DecisionInvariance == DecisionSpec => []DecisionInv
<1>1. DecisionInit => DecisionInv
  <2> SUFFICES ASSUME DecisionInit PROVE DecisionInv
    OBVIOUS
  <2>1. ~answered
    BY DEF DecisionInit
  <2>q. QED
    BY <2>1, OneKind, Zenon DEF DecisionInv, Answered
<1>2. DecisionInv /\ [DecisionNext]_decisionVars => DecisionInv'
  <2> SUFFICES ASSUME DecisionInv, [DecisionNext]_decisionVars PROVE DecisionInv'
    OBVIOUS
  <2> USE DEF AskText, AskHttp, AskTarget, AskConfig, AskFile, AskDevice, AskCapture,
              AskOutput, AskListing, AskLoop, AskMix, AskDecode
  <2>1. CASE UNCHANGED decisionVars
    BY <2>1 DEF DecisionInv, decisionVars, Answered
  <2>2. CASE DecisionNext
    <3>1. ask' = ask
      BY <2>2 DEF DecisionNext
    <3>2. /\ ask.kind = "text" => AnswerText
          /\ ask.kind = "http" => AnswerHttp
          /\ ask.kind = "target" => AnswerTarget
          /\ ask.kind = "config" => AnswerConfig
          /\ ask.kind = "file" => AnswerFile
          /\ ask.kind = "device" => AnswerDevice
          /\ ask.kind = "capture" => AnswerCapture
          /\ ask.kind = "output" => AnswerOutput
          /\ ask.kind = "listing" => AnswerListing
          /\ ask.kind = "loop" => AnswerLoop
          /\ ask.kind = "mix" => AnswerMix
          /\ ask.kind = "decode" => AnswerDecode
      BY <2>2, AnsweredByKind
    <3>q. QED
      BY <3>1, <3>2 DEF DecisionInv, Answered,
                        AnswerText, AnswerHttp, AnswerTarget, AnswerConfig, AnswerFile,
                        AnswerDevice, AnswerCapture, AnswerOutput, AnswerListing,
                        AnswerLoop, AnswerMix, AnswerDecode
  <2>q. QED
    BY <2>1, <2>2
<1>q. QED
  BY <1>1, <1>2, PTL DEF DecisionSpec

\* What a loop question is about and how it is answered.
LEMMA LoopAnswered ==
  ASSUME DecisionInv, Answered("loop")
  PROVE  /\ ask.n \in Nat \ {0} /\ ask.cf \in 0 .. ask.n /\ ask.p \in 0 .. (ask.n - 1)
         /\ ask.reverse \in BOOLEAN
         /\ Len(answer) = 2 * ask.n + 1 /\ DOMAIN answer = 1 .. Len(answer)
         /\ \A k \in 1 .. Len(answer) :
              answer[k] = Sounds(Path(ask.p, ask.n, ask.cf, ask.reverse, Len(answer))[k],
                                 ask.n, ask.cf, ask.reverse)
<1>1. AskLoop /\ answer = PlainFrames(ask.p, ask.n, ask.cf, ask.reverse, 2 * ask.n + 1)
  BY DEF DecisionInv, Answered
<1>2. PICK n \in 1 .. Frames : \E cf \in 0 .. n, p \in 0 .. n - 1, reverse \in BOOLEAN :
        ask = [kind |-> "loop", n |-> n, cf |-> cf, p |-> p, reverse |-> reverse]
  BY <1>1 DEF AskLoop
<1>3. PICK cf \in 0 .. n, p \in 0 .. n - 1, reverse \in BOOLEAN :
        ask = [kind |-> "loop", n |-> n, cf |-> cf, p |-> p, reverse |-> reverse]
  BY <1>2
<1>4. n \in Nat \ {0}
  BY LoopAssumption
<1>5. ask.n = n /\ ask.cf = cf /\ ask.p = p /\ ask.reverse = reverse
  BY <1>3
<1> DEFINE count == 2 * n + 1
<1>6. count \in Nat
  BY <1>4
<1>7. answer = [i \in 1 .. count |-> Sounds(Path(p, n, cf, reverse, count)[i], n, cf, reverse)]
  BY <1>1, <1>5, FramesOfPath
<1> HIDE DEF count
<1>8. Len(answer) = count /\ DOMAIN answer = 1 .. count
  BY <1>6, <1>7
<1>9. \A k \in 1 .. count : answer[k] = Sounds(Path(p, n, cf, reverse, count)[k], n, cf, reverse)
  BY <1>7
<1>q. QED
  BY <1>4, <1>5, <1>8, <1>9 DEF count

\* A loop never jumps, for any length and crossfade and in both directions.
LEMMA LoopsAreSeamless == DecisionInv => Seamless
<1> SUFFICES ASSUME DecisionInv, Answered("loop"),
                    NEW k \in 1 .. Len(answer) - 1, NEW frame \in 0 .. ask.n - 1
             PROVE  LET f    == Crossfade(ask.n, ask.cf)
                        step == IF ask.reverse THEN -1 ELSE 1
                        last == IF ask.reverse THEN 0 ELSE ask.n - 1
                        here  == WeightOf(frame, answer[k])
                        next == WeightOf(frame + step, answer[k + 1])
                    IN  IF f = 0 THEN here = 1 /\ frame # last => next = 1
                        ELSE here - next \in -1 .. 1
  BY DEF Seamless
<1> DEFINE n == ask.n
           cf == ask.cf
           reverse == ask.reverse
           f == Crossfade(n, cf)
           a == Path(ask.p, n, cf, reverse, Len(answer))
           step == IF reverse THEN -1 ELSE 1
<1>1. /\ n \in Nat \ {0} /\ cf \in 0 .. n /\ ask.p \in 0 .. (n - 1) /\ reverse \in BOOLEAN
      /\ Len(answer) \in Nat \ {0} /\ k \in 1 .. Len(answer) /\ k + 1 \in 1 .. Len(answer)
  BY LoopAnswered
<1>2. /\ a[k] \in 0 .. (n - 1) /\ a[k + 1] \in 0 .. (n - 1)
      /\ a[k + 1] = Onward(a[k], n, cf, reverse)
  <2> HIDE DEF n, cf, reverse
  <2>1. /\ \A i \in 1 .. Len(answer) : a[i] \in 0 .. (n - 1)
        /\ \A i \in 1 .. (Len(answer) - 1) : a[i + 1] = Onward(a[i], n, cf, reverse)
    <3>1. GoesOn(a, ask.p, n, cf, reverse, Len(answer))
      BY <1>1, PathGoesOn
    <3>q. QED
      BY <3>1 DEF GoesOn
  <2> HIDE DEF a
  <2>q. QED
    BY <1>1, <2>1
<1>3. /\ answer[k] = Sounds(a[k], n, cf, reverse)
      /\ answer[k + 1] = Sounds(a[k + 1], n, cf, reverse)
  BY <1>1, LoopAnswered
<1>4. f \in Nat /\ (f = 0 \/ n > 2 * f)
  BY <1>1, CrossfadeIs
<1>5. frame \in Int /\ frame + step \in Int /\ frame \in 0 .. (n - 1)
  BY <1>1
<1> HIDE DEF n, cf, reverse, a, step
<1>6. /\ WeightOf(frame, answer[k]) = Weight(frame, a[k], n, f, reverse)
      /\ WeightOf(frame + step, answer[k + 1]) = Weight(frame + step, a[k + 1], n, f, reverse)
  BY <1>1, <1>2, <1>3, <1>5, SoundsWeigh
<1> HIDE DEF f
<1>7. a[k + 1] = IF reverse THEN Before(a[k], n, f) ELSE After(a[k], n, f)
  BY <1>2 DEF Onward, f
<1>8. LET last == IF reverse THEN 0 ELSE n - 1
          here  == Weight(frame, a[k], n, f, reverse)
          next == Weight(frame + step, a[k + 1], n, f, reverse)
      IN  IF f = 0 THEN here = 1 /\ frame # last => next = 1 ELSE here - next \in -1 .. 1
  <2> DEFINE q == a[k]
             to == IF reverse THEN Before(q, n, f) ELSE After(q, n, f)
  <2>1. /\ n \in Nat \ {0} /\ f \in Nat /\ (f = 0 \/ n > 2 * f)
        /\ q \in 0 .. (n - 1) /\ reverse \in BOOLEAN /\ frame \in 0 .. (n - 1)
    BY <1>1, <1>2, <1>4, <1>5
  <2>2. a[k + 1] = to
    BY <1>7
  <2> HIDE DEF q
  <2>3. LET last == IF reverse THEN 0 ELSE n - 1
            here  == Weight(frame, q, n, f, reverse)
            next == Weight(frame + step, to, n, f, reverse)
        IN  IF f = 0 THEN here = 1 /\ frame # last => next = 1 ELSE here - next \in -1 .. 1
    BY ONLY <2>1, WeightMovesOn DEF step
  <2> HIDE DEF to
  <2>q. QED
    BY ONLY <2>2, <2>3 DEF q
<1>q. QED
  BY <1>6, <1>8 DEF n, cf, reverse, f, step

\* The frame that the pitch corrector is fed i frames after p.
FedAt(p, n, cf, i) ==
  LET f == Crossfade(n, cf) IN IF p + i >= n THEN f + ((p + i - n) % (n - f)) ELSE p + i

\* It is the frame that the plain path has come to by then.
LEMMA PathIsFed ==
  ASSUME NEW n \in Nat \ {0}, NEW cf \in 0 .. n, NEW p \in 0 .. (n - 1), NEW count \in Nat \ {0}
  PROVE  \A i \in 1 .. count : Path(p, n, cf, FALSE, count)[i] = FedAt(p, n, cf, i - 1)
<1> DEFINE f == Crossfade(n, cf)
           a == Path(p, n, cf, FALSE, count)
           S == {k \in 0 .. (count - 1) : a[k + 1] = FedAt(p, n, cf, k)}
<1>1. f \in Nat /\ n - f \in Nat \ {0}
  BY CrossfadeIs
<1>2. a[1] = p /\ \A i \in 1 .. (count - 1) : a[i + 1] = After(a[i], n, f)
  <2>1. a[1] = p /\ \A i \in 1 .. (count - 1) : a[i + 1] = Onward(a[i], n, cf, FALSE)
    <3>1. GoesOn(a, p, n, cf, FALSE, count)
      BY PathGoesOn
    <3>q. QED
      BY <3>1 DEF GoesOn
  <2>q. QED
    BY <2>1 DEF Onward
<1> HIDE DEF a
<1>3. 0 \in S
  BY <1>2 DEF FedAt
<1>4. ASSUME NEW k \in 1 .. (count - 1), k - 1 \in S PROVE k \in S
  <2>1. a[k] = FedAt(p, n, cf, k - 1) /\ a[k + 1] = After(a[k], n, f) /\ k \in 0 .. (count - 1)
    BY <1>2, <1>4
  <2>2. After(FedAt(p, n, cf, k - 1), n, f) = FedAt(p, n, cf, k)
    <3> HIDE DEF f
    <3>1. FedAt(p, n, cf, k) = IF p + k >= n THEN f + ((p + k - n) % (n - f)) ELSE p + k
      BY DEF FedAt, f
    <3>2. FedAt(p, n, cf, k - 1)
            = IF p + (k - 1) >= n THEN f + ((p + (k - 1) - n) % (n - f)) ELSE p + (k - 1)
      BY DEF FedAt, f
    <3>3. CASE p + k < n
      BY <3>1, <3>2, <3>3 DEF After
    <3>4. CASE p + k = n
      <4>1. p + k - n = 0 /\ p + (k - 1) = n - 1 /\ 0 % (n - f) = 0
        BY <1>1, <3>4, Remainders
      <4>2. FedAt(p, n, cf, k) = f /\ FedAt(p, n, cf, k - 1) = n - 1
        BY <1>1, <3>1, <3>2, <3>4, <4>1
      <4>q. QED
        BY <4>2 DEF After
    <3>5. CASE p + k > n
      <4>1. PICK m \in Nat : m = p + (k - 1) - n
        BY <3>5
      <4>2. (m + 1) % (n - f) = IF m % (n - f) = (n - f) - 1 THEN 0 ELSE (m % (n - f)) + 1
        BY <1>1, Remainders
      <4>3. m % (n - f) \in Int
        BY <1>1
      <4>4. FedAt(p, n, cf, k) = f + ((m + 1) % (n - f)) /\ FedAt(p, n, cf, k - 1) = f + (m % (n - f))
        <5>1. p + k - n = m + 1 /\ p + (k - 1) - n = m /\ p + k >= n /\ p + (k - 1) >= n
          BY <3>5, <4>1
        <5>q. QED
          BY <3>1, <3>2, <5>1
      <4>5. PICK r \in Int : r = m % (n - f)
        BY <4>3
      <4>q. QED
        BY <1>1, <4>2, <4>4, <4>5 DEF After
    <3>q. QED
      BY <3>3, <3>4, <3>5
  <2>q. QED
    BY <2>1, <2>2
<1>5. \A k \in 0 .. (count - 1) : k \in S
  <2> HIDE DEF S
  <2>q. QED
    BY <1>3, <1>4, AllUpTo
<1>6. ASSUME NEW i \in 1 .. count PROVE a[i] = FedAt(p, n, cf, i - 1)
  <2>1. i - 1 \in 0 .. (count - 1) /\ (i - 1) + 1 = i
    OBVIOUS
  <2>q. QED
    BY <1>5, <2>1
<1>q. QED
  BY <1>6 DEF a

\* What is fed for a frame is what the plain path sounds there.
LEMMA FedIsSounded ==
  ASSUME NEW n \in Nat \ {0}, NEW cf \in 0 .. n, NEW p \in 0 .. (n - 1), NEW count \in Nat,
         NEW i \in 1 .. count, FedAt(p, n, cf, i - 1) \in 0 .. (n - 1)
  PROVE  StretcherInput(p, n, cf, count)[i] = Sounds(FedAt(p, n, cf, i - 1), n, cf, FALSE)
<1> DEFINE f == Crossfade(n, cf)
           q == FedAt(p, n, cf, i - 1)
           into == q - (n - f)
<1>1. f = 0 \/ (f = cf /\ f \in Nat \ {0} /\ n > 2 * f)
  BY CrossfadeIs
<1>2. StretcherInput(p, n, cf, count)[i]
        = IF f > 0 /\ into >= 0 THEN {<<q, f - into>>, <<into, into>>} ELSE {<<q, Weights(n, cf)>>}
  BY DEF StretcherInput, FedAt
<1>3. Weights(n, cf) = IF f = 0 THEN 1 ELSE cf
  BY DEF Weights
<1>4. Sounds(q, n, cf, FALSE)
        = IF f = 0 THEN {<<q, 1>>}
          ELSE IF q >= n - f THEN {<<q, f - into>>, <<into, into>>} ELSE {<<q, f>>}
  BY DEF Sounds
<1> HIDE DEF f, q
<1>5. q \in Int /\ n \in Int /\ f \in Int
  BY <1>1 DEF q
<1>6. CASE f = 0
  <2>1. ~(f > 0)
    BY <1>6
  <2>q. QED
    BY <1>2, <1>3, <1>4, <1>6, <2>1 DEF q
<1>7. CASE f # 0 /\ q >= n - f
  <2>1. f > 0 /\ into >= 0
    BY <1>1, <1>5, <1>7
  <2>q. QED
    BY <1>2, <1>4, <1>7, <2>1 DEF q
<1>8. CASE f # 0 /\ ~(q >= n - f)
  <2>1. ~(into >= 0)
    BY <1>1, <1>5, <1>8
  <2>q. QED
    BY <1>1, <1>2, <1>3, <1>4, <1>8, <2>1 DEF q
<1>q. QED
  BY <1>6, <1>7, <1>8

\* At normal speed a pitch-corrected loop is fed what the plain one sounds.
LEMMA CorrectedAsPlain == DecisionInv => PitchLoopAsPlain
<1> SUFFICES ASSUME DecisionInv, Answered("loop"), ~ask.reverse, NEW k \in DOMAIN answer,
                    NEW frame \in 0 .. ask.n - 1
             PROVE  WeightOf(frame, answer[k])
                      = WeightOf(frame, StretcherInput(ask.p, ask.n, ask.cf, Len(answer))[k])
  BY DEF PitchLoopAsPlain
<1> DEFINE n == ask.n
           cf == ask.cf
           p == ask.p
           count == Len(answer)
           q == Path(p, n, cf, FALSE, count)[k]
<1>1. /\ n \in Nat \ {0} /\ cf \in 0 .. n /\ p \in 0 .. (n - 1) /\ ask.reverse = FALSE
      /\ count \in Nat \ {0} /\ k \in 1 .. count
  BY LoopAnswered
<1>2. answer[k] = Sounds(q, n, cf, FALSE)
  BY <1>1, LoopAnswered
<1> HIDE DEF n, cf, p, count
<1>3. q \in 0 .. (n - 1) /\ q = FedAt(p, n, cf, k - 1)
  <2>1. GoesOn(Path(p, n, cf, FALSE, count), p, n, cf, FALSE, count)
    BY <1>1, PathGoesOn
  <2>q. QED
    BY <1>1, <2>1, PathIsFed DEF GoesOn
<1>4. StretcherInput(p, n, cf, count)[k] = Sounds(q, n, cf, FALSE)
  <2>1. count \in Nat /\ FedAt(p, n, cf, k - 1) \in 0 .. (n - 1)
    BY <1>1, <1>3
  <2>2. StretcherInput(p, n, cf, count)[k] = Sounds(FedAt(p, n, cf, k - 1), n, cf, FALSE)
    BY <1>1, <2>1, FedIsSounded
  <2>q. QED
    BY <1>3, <2>2
<1>q. QED
  BY <1>2, <1>4 DEF n, cf, p, count

-----------------------------------------------------------------------------
(* The mix: the parts are added route by route, then the bass of the       *)
(* managed channels is moved.                                              *)

\* A sum grows by what is added to the set.
LEMMA SumGrows ==
  ASSUME NEW f, NEW K, IsFiniteSet(K), NEW x, x \notin K, \A k \in K \cup {x} : f[k] \in Int
  PROVE  /\ IsFiniteSet(K \cup {x})
         /\ SumFunctionOnSet(f, K \cup {x}) = SumFunctionOnSet(f, K) + f[x]
         /\ SumFunctionOnSet(f, K) \in Int /\ f[x] \in Int
<1>1. IsFiniteSet(K \cup {x})
  BY FS_AddElement
<1>2. SumFunctionOnSet(f, K \cup {x}) = f[x] + SumFunctionOnSet(f, (K \cup {x}) \ {x})
  BY <1>1, SumByElement
<1>3. (K \cup {x}) \ {x} = K
  OBVIOUS
<1>4. SumFunctionOnSet(f, K) \in Int /\ f[x] \in Int
  BY SumIn
<1>5. SumFunctionOnSet(f, K \cup {x}) = f[x] + SumFunctionOnSet(f, K)
  BY <1>2, <1>3
<1>q. QED
  BY <1>1, <1>4, <1>5

\* The first k places of a sequence, and the fold's way through them.
LEMMA FirstPlaces ==
  ASSUME NEW n \in Nat, NEW k \in 1 .. n
  PROVE  /\ 1 .. k \in SUBSET (1 .. n) /\ 1 .. k # {}
         /\ Max(1 .. k) = k /\ (1 .. k) \ {k} = 1 .. (k - 1)
<1>1. k \in Nat /\ k \in 1 .. k /\ 1 .. k \in SUBSET (1 .. k)
  OBVIOUS
<1>2. Max(1 .. k) = k
  BY <1>1, MaxIs
<1>q. QED
  BY <1>1, <1>2

\* Sequences are numbered from 1 to their length.
LEMMA SequenceDomain ==
  ASSUME NEW s, IsSequence(s)
  PROVE  Len(s) \in Nat /\ DOMAIN s = 1 .. Len(s)
BY DEF IsSequence

Contents == [bass : Int, treble : Int]

\* One route of a part, added to the output.
Routed(out, part, route) ==
  IF route[1] \in DOMAIN part.frame /\ route[2] \in DOMAIN out
  THEN [out EXCEPT ![route[2]] = Plus(@, Times(part.gain, part.frame[route[1]]))]
  ELSE out

\* The function by which MixInto is defined.
IsMixInto(g, output, part) ==
  g = [s \in SUBSET DOMAIN part.map |->
        IF s = {} THEN output ELSE Routed(g[s \ {Max(s)}], part, part.map[Max(s)])]

\* MixInto is the value of such a function at the whole map.
LEMMA MixIntoUnfolded ==
  ASSUME NEW output, NEW part
  PROVE  MixInto(output, part) = (CHOOSE g : IsMixInto(g, output, part))[DOMAIN part.map]
BY DEF MixInto, FoldLeft, MapThenFoldSet, IsMixInto, Routed

\* A route keeps the output an output.
LEMMA RoutedType ==
  ASSUME NEW W, NEW out \in [W -> Contents], NEW part, IsPart(part), NEW route \in Int \X Int
  PROVE  Routed(out, part, route) \in [W -> Contents]
<1>1. CASE route[1] \in DOMAIN part.frame /\ route[2] \in W
  <2> DEFINE c == part.frame[route[1]]
             o == out[route[2]]
  <2>1. c \in Contents /\ o \in Contents /\ part.gain \in Int
    BY <1>1 DEF IsPart, Contents
  <2>2. Plus(o, Times(part.gain, c)) \in Contents
    <3> HIDE DEF c, o
    <3>q. QED
      BY <2>1 DEF Contents, Plus, Times
  <2>3. Routed(out, part, route) = [out EXCEPT ![route[2]] = Plus(o, Times(part.gain, c))]
    BY <1>1 DEF Routed
  <2> HIDE DEF c, o
  <2>q. QED
    BY <2>2, <2>3
<1>2. CASE ~(route[1] \in DOMAIN part.frame /\ route[2] \in W)
  BY <1>2 DEF Routed
<1>q. QED
  BY <1>1, <1>2

\* A part is mixed in route by route.
IsRouteByRoute(a, output, part) ==
  /\ a[0] = output
  /\ \A j \in 1 .. Len(part.map) : a[j] = Routed(a[j - 1], part, part.map[j])
  /\ MixInto(output, part) = a[Len(part.map)]

\* So it is done for every part and output.
LEMMA RouteByRoute ==
  ASSUME NEW W, NEW output \in [W -> Contents], NEW part, IsPart(part)
  PROVE  \E a : IsRouteByRoute(a, output, part)
<1> DEFINE n == Len(part.map)
           V == [W -> Contents]
           st == [q \in (1 .. n) \X V |-> Routed(q[2], part, part.map[q[1]])]
<1>1. n \in Nat /\ DOMAIN part.map = 1 .. n /\ \A j \in 1 .. n : part.map[j] \in Int \X Int
  BY DEF IsPart
<1>2. st \in [(1 .. n) \X V -> V]
  <2>1. \A q \in (1 .. n) \X V : Routed(q[2], part, part.map[q[1]]) \in V
    BY <1>1, RoutedType
  <2>q. QED
    BY <2>1
<1>3. \A j \in 1 .. n, v \in V : st[<<j, v>>] = Routed(v, part, part.map[j])
  OBVIOUS
<1> HIDE DEF n, st, V
<1>4. output \in V
  BY DEF V
<1>5. PICK h \in [SUBSET (1 .. n) -> V] : Folds(h, st, output, n)
  BY <1>1, <1>2, <1>4, FoldExists
<1>6. IsMixInto(h, output, part)
  <2>1. ASSUME NEW s \in SUBSET (1 .. n), s # {}
        PROVE  h[s] = Routed(h[s \ {Max(s)}], part, part.map[Max(s)])
    <3>1. Max(s) \in s /\ h[s] = st[<<Max(s), h[s \ {Max(s)}]>>]
      BY <1>5, <2>1 DEF Folds
    <3>2. h[s \ {Max(s)}] \in V /\ Max(s) \in 1 .. n
      BY <1>5, <3>1
    <3>q. QED
      BY <1>3, <3>1, <3>2
  <2>2. h[{}] = output
    BY <1>5 DEF Folds
  <2>3. h = [s \in SUBSET (1 .. n) |-> h[s]]
    BY <1>5
  <2>4. \A s \in SUBSET (1 .. n) :
          h[s] = IF s = {} THEN output ELSE Routed(h[s \ {Max(s)}], part, part.map[Max(s)])
    BY <2>1, <2>2
  <2>q. QED
    BY <1>1, <2>3, <2>4 DEF IsMixInto
<1> DEFINE g == CHOOSE g : IsMixInto(g, output, part)
           a == [j \in 0 .. n |-> g[1 .. j]]
<1>7. IsMixInto(g, output, part)
  BY <1>6
<1>8. MixInto(output, part) = g[1 .. n]
  BY <1>1, MixIntoUnfolded
<1> HIDE DEF g
<1>9. a[0] = output
  <2>1. 1 .. 0 = {}
    OBVIOUS
  <2>2. g[{}] = output
    BY <1>7 DEF IsMixInto
  <2>q. QED
    BY <1>1, <2>1, <2>2
<1>10. ASSUME NEW j \in 1 .. n PROVE a[j] = Routed(a[j - 1], part, part.map[j])
  <2>1. /\ 1 .. j \in SUBSET (1 .. n) /\ 1 .. j # {}
        /\ Max(1 .. j) = j /\ (1 .. j) \ {j} = 1 .. (j - 1)
    BY <1>1, FirstPlaces
  <2>2. g[1 .. j] = Routed(g[(1 .. j) \ {Max(1 .. j)}], part, part.map[Max(1 .. j)])
    BY <1>1, <1>7, <2>1 DEF IsMixInto
  <2>3. a[j] = g[1 .. j] /\ a[j - 1] = g[1 .. (j - 1)]
    BY <1>1
  <2>q. QED
    BY <2>1, <2>2, <2>3
<1>11. a[n] = g[1 .. n]
  BY <1>1
<1> HIDE DEF a
<1>12. IsRouteByRoute(a, output, part)
  BY <1>8, <1>9, <1>10, <1>11 DEF IsRouteByRoute, n
<1>q. QED
  BY <1>12

AreParts(parts) == IsSequence(parts) /\ \A p \in DOMAIN parts : IsPart(parts[p])

\* The routes that arrive at a channel, each a part and a place in its map, and
\* what each brings there.
Routes(parts) == UNION {{p} \X DOMAIN parts[p].map : p \in DOMAIN parts}
Arriving(parts, ch) ==
  {r \in Routes(parts) : /\ parts[r[1]].map[r[2]][2] = ch
                         /\ parts[r[1]].map[r[2]][1] \in DOMAIN parts[r[1]].frame}
Brought(parts, ch, band) ==
  [r \in Arriving(parts, ch) |->
     parts[r[1]].gain * parts[r[1]].frame[parts[r[1]].map[r[2]][1]][band]]

\* What a channel should hold is the sum of what arrives there.
LEMMA RoutedIsSum ==
  ASSUME NEW parts, NEW ch, NEW band
  PROVE  RoutedTo(parts, ch, band) = SumFunctionOnSet(Brought(parts, ch, band), Arriving(parts, ch))
BY DEF RoutedTo, SumFunction, Brought, Arriving, Routes

\* The routes up to the j-th of part p.
Earlier(parts, ch, p, j) == {r \in Arriving(parts, ch) : r[1] < p \/ (r[1] = p /\ r[2] <= j)}

\* Every channel has received these routes and no others.
MixedUpTo(out, parts, W, p, j) ==
  /\ out \in [W -> Contents]
  /\ \A ch \in W :
       /\ IsFiniteSet(Earlier(parts, ch, p, j))
       /\ out[ch].bass = SumFunctionOnSet(Brought(parts, ch, "bass"), Earlier(parts, ch, p, j))
       /\ out[ch].treble = SumFunctionOnSet(Brought(parts, ch, "treble"), Earlier(parts, ch, p, j))

\* A route is a part and a place in its map.
LEMMA RouteIn ==
  ASSUME NEW parts, AreParts(parts), NEW p, NEW j
  PROVE  <<p, j>> \in Routes(parts) <=>
           p \in 1 .. Len(parts) /\ j \in 1 .. Len(parts[p].map)
<1>1. DOMAIN parts = 1 .. Len(parts)
  BY SequenceDomain DEF AreParts
<1>2. p \in DOMAIN parts => DOMAIN parts[p].map = 1 .. Len(parts[p].map)
  BY DEF AreParts, IsPart
<1>q. QED
  BY <1>1, <1>2 DEF Routes

\* What a route brings is a whole number of units.
LEMMA BroughtType ==
  ASSUME NEW parts, AreParts(parts), NEW ch, NEW r \in Arriving(parts, ch)
  PROVE  /\ r = <<r[1], r[2]>> /\ r[1] \in 1 .. Len(parts) /\ r[2] \in 1 .. Len(parts[r[1]].map)
         /\ Brought(parts, ch, "bass")[r] \in Int
         /\ Brought(parts, ch, "treble")[r] \in Int
<1>1. r = <<r[1], r[2]>> /\ r[1] \in DOMAIN parts /\ r \in Routes(parts)
  BY DEF Arriving, Routes
<1>2. r[1] \in 1 .. Len(parts) /\ r[2] \in 1 .. Len(parts[r[1]].map)
  BY <1>1, RouteIn
<1> DEFINE part == parts[r[1]]
           c == part.frame[part.map[r[2]][1]]
<1>3. IsPart(part)
  BY <1>1 DEF AreParts
<1>4. c \in Contents /\ part.gain \in Int
  BY <1>3 DEF IsPart, Contents, Arriving
<1>5. c.bass \in Int /\ c.treble \in Int
  BY <1>4 DEF Contents
<1>6. Brought(parts, ch, "bass")[r] = part.gain * c.bass /\ Brought(parts, ch, "treble")[r] = part.gain * c.treble
  BY DEF Brought
<1> HIDE DEF c, part
<1>7. part.gain * c.bass \in Int /\ part.gain * c.treble \in Int
  BY <1>4, <1>5
<1>q. QED
  BY <1>1, <1>2, <1>6, <1>7

\* The next route adds what it brings to the channel where it arrives.
LEMMA RouteMixed ==
  ASSUME NEW parts, AreParts(parts), NEW W, NEW p \in 1 .. Len(parts),
         NEW j \in 1 .. Len(parts[p].map), NEW out, MixedUpTo(out, parts, W, p, j - 1)
  PROVE  MixedUpTo(Routed(out, parts[p], parts[p].map[j]), parts, W, p, j)
<1> DEFINE part == parts[p]
           route == part.map[j]
           next == Routed(out, part, route)
           r == <<p, j>>
<1>1. IsPart(part) /\ route \in Int \X Int /\ out \in [W -> Contents] /\ r \in Routes(parts)
      /\ Len(parts) \in Nat /\ Len(part.map) \in Nat
  <2>1. Len(parts) \in Nat /\ DOMAIN parts = 1 .. Len(parts)
    BY SequenceDomain DEF AreParts
  <2>2. IsPart(part) /\ out \in [W -> Contents]
    BY <2>1 DEF AreParts, MixedUpTo
  <2>3. r \in Routes(parts)
    BY RouteIn
  <2>4. Len(part.map) \in Nat /\ route \in Int \X Int
    BY <2>2 DEF IsPart
  <2>q. QED
    BY <2>1, <2>2, <2>3, <2>4
<1>2. next \in [W -> Contents]
  BY <1>1, RoutedType
<1>3. ASSUME NEW ch \in W
      PROVE  /\ IsFiniteSet(Earlier(parts, ch, p, j))
             /\ next[ch].bass = SumFunctionOnSet(Brought(parts, ch, "bass"), Earlier(parts, ch, p, j))
             /\ next[ch].treble = SumFunctionOnSet(Brought(parts, ch, "treble"), Earlier(parts, ch, p, j))
  <2> DEFINE K == Earlier(parts, ch, p, j - 1)
             b == Brought(parts, ch, "bass")
             t == Brought(parts, ch, "treble")
  <2>1. IsFiniteSet(K) /\ out[ch].bass = SumFunctionOnSet(b, K) /\ out[ch].treble = SumFunctionOnSet(t, K)
    BY DEF MixedUpTo
  <2>2. \A s \in Arriving(parts, ch) :
          /\ s = <<s[1], s[2]>> /\ s[1] \in Int /\ s[2] \in Int /\ b[s] \in Int /\ t[s] \in Int
    BY BroughtType
  <2>3. Earlier(parts, ch, p, j) = IF r \in Arriving(parts, ch) THEN K \cup {r} ELSE K
    BY <1>1, <2>2 DEF Earlier
  <2>4. r \notin K /\ K \subseteq Arriving(parts, ch)
    BY <1>1 DEF Earlier
  <2>5. r \in Arriving(parts, ch) <=> route[2] = ch /\ route[1] \in DOMAIN part.frame
    BY <1>1 DEF Arriving
  <2>6. CASE r \in Arriving(parts, ch)
    <3> DEFINE c == part.frame[route[1]]
    <3>1. next[ch] = Plus(out[ch], Times(part.gain, c))
      BY <1>1, <2>5, <2>6 DEF Routed
    <3>2. b[r] = part.gain * c.bass /\ t[r] = part.gain * c.treble
      BY <2>6 DEF Brought
    <3>3. next[ch].bass = out[ch].bass + b[r] /\ next[ch].treble = out[ch].treble + t[r]
      <4> HIDE DEF c, b, t, next
      <4>q. QED
        BY <3>1, <3>2 DEF Plus, Times
    <3> HIDE DEF b, t, K, r, next
    <3>4. /\ IsFiniteSet(K \cup {r})
          /\ SumFunctionOnSet(b, K \cup {r}) = SumFunctionOnSet(b, K) + b[r]
          /\ SumFunctionOnSet(t, K \cup {r}) = SumFunctionOnSet(t, K) + t[r]
      BY <2>1, <2>2, <2>4, <2>6, SumGrows
    <3>q. QED
      BY <2>1, <2>3, <2>6, <3>3, <3>4 DEF b, t
  <2>7. CASE r \notin Arriving(parts, ch)
    <3>1. next[ch] = out[ch]
      BY <1>1, <2>5, <2>7 DEF Routed
    <3>q. QED
      BY <2>1, <2>3, <2>7, <3>1
  <2>q. QED
    BY <2>6, <2>7
<1>q. QED
  BY <1>2, <1>3 DEF MixedUpTo

\* A part adds all that its map brings.
LEMMA PartMixed ==
  ASSUME NEW parts, AreParts(parts), NEW W, NEW p \in 1 .. Len(parts), NEW out,
         MixedUpTo(out, parts, W, p, 0)
  PROVE  MixedUpTo(MixInto(out, parts[p]), parts, W, p + 1, 0)
<1> DEFINE part == parts[p]
           n == Len(part.map)
<1>1. IsPart(part) /\ out \in [W -> Contents] /\ n \in Nat
  <2>1. p \in DOMAIN parts
    BY SequenceDomain DEF AreParts
  <2>q. QED
    BY <2>1 DEF AreParts, MixedUpTo, IsPart
<1>2. PICK a : IsRouteByRoute(a, out, part)
  BY <1>1, RouteByRoute
<1> DEFINE S == {j \in 0 .. n : MixedUpTo(a[j], parts, W, p, j)}
<1>3. 0 \in S
  BY <1>1, <1>2 DEF IsRouteByRoute
<1>4. ASSUME NEW j \in 1 .. n, j - 1 \in S PROVE j \in S
  <2>1. a[j] = Routed(a[j - 1], part, part.map[j])
    BY <1>2 DEF IsRouteByRoute
  <2>2. MixedUpTo(Routed(a[j - 1], part, part.map[j]), parts, W, p, j)
    BY <1>4, RouteMixed
  <2>q. QED
    BY <2>1, <2>2
<1>5. n \in S
  <2> HIDE DEF S, n
  <2>1. \A k \in 0 .. n : k \in S
    BY <1>1, <1>3, <1>4, AllUpTo
  <2>q. QED
    BY <1>1, <2>1
<1>6. MixedUpTo(MixInto(out, part), parts, W, p, n)
  BY <1>2, <1>5 DEF IsRouteByRoute
<1>7. ASSUME NEW ch PROVE Earlier(parts, ch, p, n) = Earlier(parts, ch, p + 1, 0)
  <2>1. ASSUME NEW r \in Arriving(parts, ch)
        PROVE  (r[1] < p \/ (r[1] = p /\ r[2] <= n)) <=> (r[1] < p + 1 \/ (r[1] = p + 1 /\ r[2] <= 0))
    <3>1. r[1] \in 1 .. Len(parts) /\ r[2] \in 1 .. Len(parts[r[1]].map)
      BY BroughtType
    <3>2. r[1] \in Int /\ r[2] \in Int /\ r[2] >= 1 /\ (r[1] = p => r[2] <= n)
      BY <3>1
    <3>q. QED
      BY <1>1, <3>2
  <2>q. QED
    BY <2>1 DEF Earlier
<1>q. QED
  BY <1>6, <1>7 DEF MixedUpTo

\* The function by which the mix of all parts is defined.
IsMix(g, silence, parts) ==
  g = [s \in SUBSET DOMAIN parts |->
        IF s = {} THEN silence ELSE MixInto(g[s \ {Max(s)}], parts[Max(s)])]

Mix(parts, width) == FoldLeft(MixInto, [ch \in 0 .. width - 1 |-> Silence], parts)

\* The mix is the value of such a function at all parts.
LEMMA MixUnfolded ==
  ASSUME NEW parts, NEW width
  PROVE  Mix(parts, width)
           = (CHOOSE g : IsMix(g, [ch \in 0 .. width - 1 |-> Silence], parts))[DOMAIN parts]
BY DEF Mix, FoldLeft, MapThenFoldSet, IsMix

\* A part keeps the output an output.
LEMMA MixIntoType ==
  ASSUME NEW W, NEW out \in [W -> Contents], NEW part, IsPart(part)
  PROVE  MixInto(out, part) \in [W -> Contents]
<1> DEFINE n == Len(part.map)
<1>1. n \in Nat /\ \A j \in 1 .. n : part.map[j] \in Int \X Int
  BY DEF IsPart
<1>2. PICK a : IsRouteByRoute(a, out, part)
  BY RouteByRoute
<1> DEFINE S == {j \in 0 .. n : a[j] \in [W -> Contents]}
<1>3. 0 \in S
  BY <1>1, <1>2 DEF IsRouteByRoute
<1>4. ASSUME NEW j \in 1 .. n, j - 1 \in S PROVE j \in S
  <2>1. a[j] = Routed(a[j - 1], part, part.map[j])
    BY <1>2 DEF IsRouteByRoute
  <2>2. Routed(a[j - 1], part, part.map[j]) \in [W -> Contents]
    BY <1>1, <1>4, RoutedType
  <2>q. QED
    BY <2>1, <2>2
<1>5. n \in S
  <2> HIDE DEF S, n
  <2>1. \A k \in 0 .. n : k \in S
    BY <1>1, <1>3, <1>4, AllUpTo
  <2>q. QED
    BY <1>1, <2>1
<1>q. QED
  BY <1>2, <1>5 DEF IsRouteByRoute

\* The mix is every route of every part.
LEMMA MixIsRouted ==
  ASSUME NEW parts, AreParts(parts), NEW width \in Nat
  PROVE  LET W == 0 .. width - 1
         IN  /\ Mix(parts, width) \in [W -> Contents]
             /\ \A ch \in W : /\ Mix(parts, width)[ch].bass = RoutedTo(parts, ch, "bass")
                              /\ Mix(parts, width)[ch].treble = RoutedTo(parts, ch, "treble")
<1> DEFINE W == 0 .. width - 1
           silence == [ch \in W |-> Silence]
           V == [W -> Contents]
           n == Len(parts)
           st == [q \in (1 .. n) \X V |-> MixInto(q[2], parts[q[1]])]
<1>1. n \in Nat /\ DOMAIN parts = 1 .. n /\ \A p \in 1 .. n : IsPart(parts[p])
  BY SequenceDomain DEF AreParts
<1>2. silence \in V
  BY DEF Silence, Contents
<1>3. st \in [(1 .. n) \X V -> V]
  <2>1. \A q \in (1 .. n) \X V : MixInto(q[2], parts[q[1]]) \in V
    <3> HIDE DEF W
    <3>q. QED
      BY <1>1, MixIntoType
  <2>q. QED
    BY <2>1
<1>4. \A p \in 1 .. n, v \in V : st[<<p, v>>] = MixInto(v, parts[p])
  OBVIOUS
<1> HIDE DEF V, st, silence, n, W
<1>5. PICK h \in [SUBSET (1 .. n) -> V] : Folds(h, st, silence, n)
  BY <1>1, <1>2, <1>3, FoldExists
<1>6. IsMix(h, silence, parts)
  <2>1. ASSUME NEW s \in SUBSET (1 .. n), s # {}
        PROVE  h[s] = MixInto(h[s \ {Max(s)}], parts[Max(s)])
    <3>1. Max(s) \in s /\ h[s] = st[<<Max(s), h[s \ {Max(s)}]>>]
      BY <1>5, <2>1 DEF Folds
    <3>2. h[s \ {Max(s)}] \in V /\ Max(s) \in 1 .. n
      BY <1>5, <3>1
    <3>q. QED
      BY <1>4, <3>1, <3>2
  <2>2. h[{}] = silence
    BY <1>5 DEF Folds
  <2>3. h = [s \in SUBSET (1 .. n) |-> h[s]]
    BY <1>5
  <2>4. \A s \in SUBSET (1 .. n) :
          h[s] = IF s = {} THEN silence ELSE MixInto(h[s \ {Max(s)}], parts[Max(s)])
    BY <2>1, <2>2
  <2>q. QED
    BY <1>1, <2>3, <2>4 DEF IsMix
<1> DEFINE g == CHOOSE g : IsMix(g, silence, parts)
           S == {k \in 0 .. n : MixedUpTo(g[1 .. k], parts, W, k + 1, 0)}
<1>7. IsMix(g, silence, parts)
  BY <1>6
<1>8. Mix(parts, width) = g[1 .. n]
  BY <1>1, MixUnfolded DEF silence, W
<1> HIDE DEF g
<1>9. 0 \in S
  <2>1. g[1 .. 0] = silence
    <3>1. 1 .. 0 = {}
      OBVIOUS
    <3>2. g[{}] = silence
      BY <1>7 DEF IsMix
    <3>q. QED
      BY <3>1, <3>2
  <2>2. ASSUME NEW ch PROVE Earlier(parts, ch, 1, 0) = {}
    <3>1. \A r \in Arriving(parts, ch) : r[1] >= 1 /\ r[2] >= 1 /\ r[1] \in Int /\ r[2] \in Int
      BY BroughtType
    <3>q. QED
      BY <3>1 DEF Earlier
  <2>3. \A f : SumFunctionOnSet(f, {}) = 0
    BY FS_EmptySet, SumByChosen
  <2>4. \A ch \in W : silence[ch].bass = 0 /\ silence[ch].treble = 0
    BY DEF silence, Silence
  <2>5. MixedUpTo(silence, parts, W, 1, 0)
    BY <1>2, <2>2, <2>3, <2>4, FS_EmptySet DEF MixedUpTo, V
  <2>q. QED
    BY <1>1, <2>1, <2>5
<1>10. ASSUME NEW k \in 1 .. n, k - 1 \in S PROVE k \in S
  <2>1. MixedUpTo(g[1 .. (k - 1)], parts, W, k, 0)
    BY <1>10
  <2>2. g[1 .. k] = MixInto(g[1 .. (k - 1)], parts[k])
    <3>1. /\ 1 .. k \in SUBSET (1 .. n) /\ 1 .. k # {}
          /\ Max(1 .. k) = k /\ (1 .. k) \ {k} = 1 .. (k - 1)
      BY <1>1, FirstPlaces
    <3>2. g[1 .. k] = MixInto(g[(1 .. k) \ {Max(1 .. k)}], parts[Max(1 .. k)])
      BY <1>1, <1>7, <3>1 DEF IsMix
    <3>q. QED
      BY <3>1, <3>2
  <2>3. MixedUpTo(MixInto(g[1 .. (k - 1)], parts[k]), parts, W, k + 1, 0)
    BY <2>1, PartMixed DEF n
  <2>q. QED
    BY <2>2, <2>3
<1>11. n \in S
  <2> HIDE DEF S
  <2>1. \A k \in 0 .. n : k \in S
    BY <1>1, <1>9, <1>10, AllUpTo
  <2>q. QED
    BY <1>1, <2>1
<1>12. MixedUpTo(Mix(parts, width), parts, W, n + 1, 0)
  BY <1>8, <1>11
<1>13. ASSUME NEW ch PROVE Earlier(parts, ch, n + 1, 0) = Arriving(parts, ch)
  <2>1. \A r \in Arriving(parts, ch) : r[1] \in 1 .. n
    BY BroughtType DEF n
  <2>2. \A r \in Arriving(parts, ch) : r[1] < n + 1
    BY <1>1, <2>1
  <2>q. QED
    BY <2>2 DEF Earlier
<1>q. QED
  BY <1>12, <1>13, RoutedIsSum DEF MixedUpTo, W

\* What one source does to the output and to the sum of the bass taken so far.
BassStep(output, bm, acc, src) ==
  IF src \notin DOMAIN output \/ src = bm.lfe THEN acc
  ELSE [out |-> IF bm.remove THEN [acc.out EXCEPT ![src].bass = 0] ELSE acc.out,
        sum |-> acc.sum + acc.out[src].bass]

\* The function by which the sources are taken one by one.
IsTaken(g, output, bm) ==
  g = [s \in SUBSET DOMAIN bm.sources |->
        IF s = {} THEN [out |-> output, sum |-> 0]
        ELSE BassStep(output, bm, g[s \ {Max(s)}], bm.sources[Max(s)])]

Taken(output, bm) == (CHOOSE g : IsTaken(g, output, bm))[DOMAIN bm.sources]

\* BassProcess is what is left when all sources have been taken, with the sum
\* added to the LFE channel.
LEMMA BassUnfolded ==
  ASSUME NEW output, NEW bm
  PROVE  BassProcess(output, bm) =
           IF ~bm.enabled \/ bm.lfe \notin DOMAIN output THEN output
           ELSE [Taken(output, bm).out EXCEPT ![bm.lfe].bass = @ + Taken(output, bm).sum]
BY DEF BassProcess, FoldLeft, MapThenFoldSet, Taken, IsTaken, BassStep

\* The channels managed by the first k sources.
ManagedUpTo(W, bm, k) == ({bm.sources[i] : i \in 1 .. k} \ {bm.lfe}) \cap W

\* The first k sources have been taken, each once.
TakenUpTo(acc, W, output, bm, k) ==
  LET K == ManagedUpTo(W, bm, k)
      b == [ch \in W |-> output[ch].bass]
  IN  /\ acc \in [out : [W -> Contents], sum : Int]
      /\ IsFiniteSet(K) /\ acc.sum = SumFunctionOnSet(b, K)
      /\ \A ch \in W : /\ acc.out[ch].treble = output[ch].treble
                       /\ acc.out[ch].bass = IF bm.remove /\ ch \in K THEN 0 ELSE output[ch].bass

\* A step keeps what it works on an output and a sum.
LEMMA BassStepType ==
  ASSUME NEW W, NEW output \in [W -> Contents], NEW bm,
         NEW acc \in [out : [W -> Contents], sum : Int], NEW src
  PROVE  BassStep(output, bm, acc, src) \in [out : [W -> Contents], sum : Int]
<1>1. CASE src \notin W \/ src = bm.lfe
  BY <1>1 DEF BassStep
<1>2. CASE src \in W /\ src # bm.lfe
  <2> DEFINE o == acc.out
             next == IF bm.remove THEN [o EXCEPT ![src].bass = 0] ELSE o
  <2>1. o \in [W -> Contents] /\ acc.sum \in Int
    OBVIOUS
  <2>2. BassStep(output, bm, acc, src) = [out |-> next, sum |-> acc.sum + o[src].bass]
    BY <1>2 DEF BassStep
  <2> HIDE DEF o
  <2>3. o[src].bass \in Int /\ acc.sum + o[src].bass \in Int
    BY <1>2, <2>1 DEF Contents
  <2>4. next \in [W -> Contents]
    BY <1>2, <2>1 DEF Contents
  <2>q. QED
    BY <2>2, <2>3, <2>4
<1>q. QED
  BY <1>1, <1>2

\* The next source is a channel not managed before.
LEMMA SourceTaken ==
  ASSUME NEW W, NEW output \in [W -> Contents], NEW bm, NEW n \in Nat,
         \A i, j \in 1 .. n : bm.sources[i] = bm.sources[j] => i = j,
         NEW k \in 1 .. n, NEW acc, TakenUpTo(acc, W, output, bm, k - 1)
  PROVE  TakenUpTo(BassStep(output, bm, acc, bm.sources[k]), W, output, bm, k)
<1> DEFINE src == bm.sources[k]
           next == BassStep(output, bm, acc, src)
           K == ManagedUpTo(W, bm, k - 1)
           b == [ch \in W |-> output[ch].bass]
<1>1. /\ acc \in [out : [W -> Contents], sum : Int]
      /\ IsFiniteSet(K) /\ acc.sum = SumFunctionOnSet(b, K)
      /\ \A ch \in W : /\ acc.out[ch].treble = output[ch].treble
                       /\ acc.out[ch].bass = IF bm.remove /\ ch \in K THEN 0 ELSE output[ch].bass
  BY DEF TakenUpTo
<1>2. next \in [out : [W -> Contents], sum : Int]
  BY <1>1, BassStepType
<1>3. {bm.sources[i] : i \in 1 .. k} = {bm.sources[i] : i \in 1 .. (k - 1)} \cup {src}
  <2>1. 1 .. k = (1 .. (k - 1)) \cup {k}
    OBVIOUS
  <2>q. QED
    BY <2>1
<1>4. src \notin K
  <2>1. \A i \in 1 .. (k - 1) : i \in 1 .. n /\ i # k
    OBVIOUS
  <2>q. QED
    BY <2>1 DEF ManagedUpTo
<1>5. CASE src \notin W \/ src = bm.lfe
  <2>1. next = acc
    BY <1>5 DEF BassStep
  <2>2. ManagedUpTo(W, bm, k) = K
    BY <1>3, <1>5 DEF ManagedUpTo
  <2> HIDE DEF next, K
  <2>q. QED
    BY <1>1, <2>1, <2>2 DEF TakenUpTo, next
<1>6. CASE src \in W /\ src # bm.lfe
  <2>1. ManagedUpTo(W, bm, k) = K \cup {src}
    BY <1>3, <1>6 DEF ManagedUpTo
  <2>2. acc.out[src].bass = output[src].bass
    BY <1>1, <1>4, <1>6
  <2>3. b[src] = output[src].bass
    BY <1>6
  <2>4. next.sum = acc.sum + b[src]
    BY <1>6, <2>2, <2>3 DEF BassStep
  <2>5. \A ch \in K \cup {src} : b[ch] \in Int
    <3>1. \A ch \in W : output[ch].bass \in Int
      BY DEF Contents
    <3>2. K \cup {src} \subseteq W
      BY <1>6 DEF ManagedUpTo
    <3>q. QED
      BY <3>1, <3>2
  <2>6. /\ IsFiniteSet(K \cup {src})
        /\ SumFunctionOnSet(b, K \cup {src}) = SumFunctionOnSet(b, K) + b[src]
    <3> HIDE DEF K, b, src
    <3>q. QED
      BY <1>1, <1>4, <2>5, SumGrows
  <2>7. ASSUME NEW ch \in W
        PROVE  /\ next.out[ch].treble = output[ch].treble
               /\ next.out[ch].bass
                    = IF bm.remove /\ ch \in K \cup {src} THEN 0 ELSE output[ch].bass
    <3> DEFINE o == acc.out
    <3>1. /\ o \in [W -> Contents] /\ o[ch].treble = output[ch].treble
          /\ o[ch].bass = IF bm.remove /\ ch \in K THEN 0 ELSE output[ch].bass
      BY <1>1
    <3>2. next.out = IF bm.remove THEN [o EXCEPT ![src].bass = 0] ELSE o
      BY <1>6 DEF BassStep
    <3>3. CASE ~bm.remove
      BY <3>1, <3>2, <3>3
    <3>4. CASE bm.remove /\ ch = src
      <4>1. next.out[ch] = [o[ch] EXCEPT !.bass = 0]
        BY <1>6, <3>1, <3>2, <3>4
      <4>2. o[ch] \in Contents
        BY <3>1
      <4>3. next.out[ch].bass = 0 /\ next.out[ch].treble = o[ch].treble
        BY <4>1, <4>2 DEF Contents
      <4>q. QED
        BY <3>1, <3>4, <4>3
    <3>5. CASE bm.remove /\ ch # src
      <4>1. next.out[ch] = o[ch]
        BY <3>1, <3>2, <3>5
      <4>q. QED
        BY <3>1, <3>5, <4>1
    <3>q. QED
      BY <3>3, <3>4, <3>5
  <2> HIDE DEF next, K, b
  <2>q. QED
    BY <1>1, <1>2, <2>1, <2>4, <2>6, <2>7 DEF TakenUpTo, b, next
<1>q. QED
  BY <1>5, <1>6

\* All sources have been taken, each once.
LEMMA SourcesTaken ==
  ASSUME NEW W, NEW output \in [W -> Contents], NEW bm, NEW n \in Nat, DOMAIN bm.sources = 1 .. n,
         \A i, j \in 1 .. n : bm.sources[i] = bm.sources[j] => i = j
  PROVE  TakenUpTo(Taken(output, bm), W, output, bm, n)
<1> DEFINE V == [out : [W -> Contents], sum : Int]
           base == [out |-> output, sum |-> 0]
           st == [q \in (1 .. n) \X V |-> BassStep(output, bm, q[2], bm.sources[q[1]])]
<1>1. base \in V
  OBVIOUS
<1>2. st \in [(1 .. n) \X V -> V]
  <2>1. \A q \in (1 .. n) \X V : BassStep(output, bm, q[2], bm.sources[q[1]]) \in V
    BY BassStepType
  <2>q. QED
    BY <2>1
<1>3. \A k \in 1 .. n, v \in V : st[<<k, v>>] = BassStep(output, bm, v, bm.sources[k])
  OBVIOUS
<1> HIDE DEF V, st, base
<1>4. PICK h \in [SUBSET (1 .. n) -> V] : Folds(h, st, base, n)
  BY <1>1, <1>2, FoldExists
<1>5. IsTaken(h, output, bm)
  <2>1. ASSUME NEW s \in SUBSET (1 .. n), s # {}
        PROVE  h[s] = BassStep(output, bm, h[s \ {Max(s)}], bm.sources[Max(s)])
    <3>1. Max(s) \in s /\ h[s] = st[<<Max(s), h[s \ {Max(s)}]>>]
      BY <1>4, <2>1 DEF Folds
    <3>2. h[s \ {Max(s)}] \in V /\ Max(s) \in 1 .. n
      BY <1>4, <3>1
    <3>q. QED
      BY <1>3, <3>1, <3>2
  <2>2. h[{}] = base
    BY <1>4 DEF Folds
  <2>3. h = [s \in SUBSET (1 .. n) |-> h[s]]
    BY <1>4
  <2>4. \A s \in SUBSET (1 .. n) :
          h[s] = IF s = {} THEN base
                 ELSE BassStep(output, bm, h[s \ {Max(s)}], bm.sources[Max(s)])
    BY <2>1, <2>2
  <2>q. QED
    BY <2>3, <2>4 DEF IsTaken, base
<1> DEFINE g == CHOOSE g : IsTaken(g, output, bm)
           S == {k \in 0 .. n : TakenUpTo(g[1 .. k], W, output, bm, k)}
<1>6. IsTaken(g, output, bm)
  BY <1>5
<1>7. Taken(output, bm) = g[1 .. n]
  BY DEF Taken
<1> HIDE DEF g
<1>8. 0 \in S
  <2>1. g[1 .. 0] = base
    <3>1. 1 .. 0 = {}
      OBVIOUS
    <3>2. g[{}] = base
      BY <1>6 DEF IsTaken, base
    <3>q. QED
      BY <3>1, <3>2
  <2>2. ManagedUpTo(W, bm, 0) = {}
    BY DEF ManagedUpTo
  <2>3. \A f : SumFunctionOnSet(f, {}) = 0
    BY FS_EmptySet, SumByChosen
  <2>4. base.out = output /\ base.sum = 0
    BY DEF base
  <2>5. TakenUpTo(base, W, output, bm, 0)
    BY <1>1, <2>2, <2>3, <2>4, FS_EmptySet DEF TakenUpTo, V
  <2>q. QED
    BY <2>1, <2>5
<1>9. ASSUME NEW k \in 1 .. n, k - 1 \in S PROVE k \in S
  <2>1. TakenUpTo(g[1 .. (k - 1)], W, output, bm, k - 1)
    BY <1>9
  <2>2. g[1 .. k] = BassStep(output, bm, g[1 .. (k - 1)], bm.sources[k])
    <3>1. /\ 1 .. k \in SUBSET (1 .. n) /\ 1 .. k # {}
          /\ Max(1 .. k) = k /\ (1 .. k) \ {k} = 1 .. (k - 1)
      BY FirstPlaces
    <3>2. g[1 .. k] = BassStep(output, bm, g[(1 .. k) \ {Max(1 .. k)}], bm.sources[Max(1 .. k)])
      BY <1>6, <3>1 DEF IsTaken
    <3>q. QED
      BY <3>1, <3>2
  <2>3. TakenUpTo(BassStep(output, bm, g[1 .. (k - 1)], bm.sources[k]), W, output, bm, k)
    BY <2>1, SourceTaken
  <2>q. QED
    BY <2>2, <2>3
<1>10. n \in S
  <2> HIDE DEF S
  <2>1. \A k \in 0 .. n : k \in S
    BY <1>8, <1>9, AllUpTo
  <2>q. QED
    BY <2>1
<1>q. QED
  BY <1>7, <1>10

\* Each channel of an output as bass management should leave it.
IsManaged(done, W, output, bm, n) ==
  LET active == bm.enabled /\ bm.lfe \in W
      K == ManagedUpTo(W, bm, n)
      b == [ch \in W |-> output[ch].bass]
  IN  /\ DOMAIN done = W
      /\ \A ch \in W :
           /\ done[ch].treble = output[ch].treble
           /\ done[ch].bass = IF active /\ ch = bm.lfe THEN output[ch].bass + SumFunctionOnSet(b, K)
                              ELSE IF active /\ bm.remove /\ ch \in K THEN 0 ELSE output[ch].bass

\* BassProcess leaves it so when no source is named twice.
LEMMA BassIsManaged ==
  ASSUME NEW W, NEW output \in [W -> Contents], NEW bm, NEW n \in Nat, DOMAIN bm.sources = 1 .. n,
         bm.enabled => \A i, j \in 1 .. n : bm.sources[i] = bm.sources[j] => i = j
  PROVE  IsManaged(BassProcess(output, bm), W, output, bm, n)
<1> DEFINE K == ManagedUpTo(W, bm, n)
           b == [c \in W |-> output[c].bass]
           done == BassProcess(output, bm)
<1>1. CASE ~(bm.enabled /\ bm.lfe \in W)
  <2>1. done = output
    BY <1>1, BassUnfolded
  <2> HIDE DEF done
  <2>q. QED
    BY <1>1, <2>1 DEF done, IsManaged
<1>2. CASE bm.enabled /\ bm.lfe \in W
  <2> DEFINE t == Taken(output, bm)
             o == t.out
  <2>1. TakenUpTo(t, W, output, bm, n)
    BY <1>2, SourcesTaken
  <2>2. done = [o EXCEPT ![bm.lfe].bass = @ + t.sum]
    BY <1>2, BassUnfolded
  <2>3. /\ o \in [W -> Contents] /\ t.sum = SumFunctionOnSet(b, K)
        /\ \A ch \in W : /\ o[ch].treble = output[ch].treble
                         /\ o[ch].bass = IF bm.remove /\ ch \in K THEN 0 ELSE output[ch].bass
    BY <2>1 DEF TakenUpTo
  <2>4. bm.lfe \notin K
    BY DEF ManagedUpTo
  <2> HIDE DEF done, t, o, K, b
  <2>5. DOMAIN done = W
    BY <2>2, <2>3
  <2>6. ASSUME NEW ch \in W
        PROVE  /\ done[ch].treble = output[ch].treble
               /\ done[ch].bass = IF ch = bm.lfe THEN output[ch].bass + SumFunctionOnSet(b, K)
                                  ELSE IF bm.remove /\ ch \in K THEN 0 ELSE output[ch].bass
    <3>1. CASE ch = bm.lfe
      <4>1. done[ch] = [o[ch] EXCEPT !.bass = o[ch].bass + t.sum]
        BY <2>2, <2>3, <3>1
      <4>2. o[ch] \in Contents
        BY <2>3
      <4>3. done[ch].bass = o[ch].bass + t.sum /\ done[ch].treble = o[ch].treble
        BY <4>1, <4>2 DEF Contents
      <4>q. QED
        BY <2>3, <2>4, <3>1, <4>3
    <3>2. CASE ch # bm.lfe
      <4>1. done[ch] = o[ch]
        BY <2>2, <2>3, <3>2
      <4>q. QED
        BY <2>3, <3>2, <4>1
    <3>q. QED
      BY <3>1, <3>2
  <2>q. QED
    BY <1>2, <2>5, <2>6 DEF IsManaged, done, b, K
<1>q. QED
  BY <1>1, <1>2

\* What is known of a mix that was asked for.
MixAsked(c, parts, width) ==
  /\ AreParts(parts) /\ width \in Nat
  /\ IsSequence(c.bass.sources) /\ Valid(c)
  /\ answer = ApplyGains(BassProcess(Mix(parts, width), BassOf(c)), ChannelGains(c, width))

\* A mix that is answered is of that kind.
LEMMA MixAnswered ==
  ASSUME DecisionInv, Answered("mix")
  PROVE  MixAsked(ask.config, ask.parts, ask.width)
<1>1. AskMix /\ Valid(ask.config)
      /\ answer = MixAudio(ask.parts, ask.width, BassOf(ask.config),
                           ChannelGains(ask.config, ask.width))
  BY DEF DecisionInv, Answered
<1>2. PICK parts \in MixParts, width \in Widths, bass \in BassSetups, c \in Configs :
        ask = [kind |-> "mix", parts |-> parts, width |-> width,
               config |-> [c EXCEPT !.bass = bass]]
  BY <1>1 DEF AskMix
<1>3. ask.parts = parts /\ ask.width = width /\ ask.config.bass = bass
  BY <1>2, ConfigAssumption DEF ConfigFields
<1>4. AreParts(parts) /\ width \in Nat
  BY MixAssumption DEF AreParts
<1>5. IsSequence(bass.sources)
  BY BassAssumption
<1>6. answer = ApplyGains(BassProcess(Mix(ask.parts, ask.width), BassOf(ask.config)),
                          ChannelGains(ask.config, ask.width))
  BY <1>1 DEF MixAudio, Mix
<1>q. QED
  BY <1>1, <1>3, <1>4, <1>5, <1>6 DEF MixAsked

\* The sources of a valid configuration are different channels.
LEMMA SourcesDiffer ==
  ASSUME NEW c, IsSequence(c.bass.sources), Valid(c)
  PROVE  /\ Len(c.bass.sources) \in Nat
         /\ DOMAIN BassOf(c).sources = 1 .. Len(c.bass.sources)
         /\ BassOf(c).enabled =>
              \A i, j \in 1 .. Len(c.bass.sources) :
                BassOf(c).sources[i] = BassOf(c).sources[j] => i = j
<1>1. Len(c.bass.sources) \in Nat /\ DOMAIN c.bass.sources = 1 .. Len(c.bass.sources)
  BY SequenceDomain
<1> DEFINE sources == ResolveBassManagement(c).sources
<1>2. BassOf(c).sources = sources /\ BassOf(c).enabled = c.bass.enabled
  BY DEF BassOf
<1>3. DOMAIN sources = DOMAIN c.bass.sources
  BY DEF ResolveBassManagement
<1>4. c.bass.enabled => \A i, j \in DOMAIN sources : sources[i] = sources[j] => i = j
  <2>1. ValidBass(c)
    BY DEF Valid
  <2> HIDE DEF sources
  <2>q. QED
    BY <2>1 DEF ValidBass, sources
<1> HIDE DEF sources
<1>q. QED
  BY <1>1, <1>2, <1>3, <1>4

\* An answered mix, channel by channel.
IsMixOf(c, parts, width) ==
  LET W == 0 .. width - 1
      gains == ChannelGains(c, width)
      bm == BassOf(c)
      active == bm.enabled /\ bm.lfe \in W
      K == ({bm.sources[i] : i \in DOMAIN bm.sources} \ {bm.lfe}) \cap W
      bass(ch) == RoutedTo(parts, ch, "bass")
      routed == [k \in K |-> bass(k)]
  IN  /\ DOMAIN answer = W
      /\ \A ch \in W :
           /\ answer[ch].treble = gains[ch] * RoutedTo(parts, ch, "treble")
           /\ answer[ch].bass =
                gains[ch] * (IF active /\ ch = bm.lfe THEN bass(ch) + SumFunction(routed)
                             ELSE IF active /\ bm.remove /\ ch \in K THEN 0 ELSE bass(ch))

\* That is what a mix of a valid configuration comes to.
LEMMA MixOfChannels ==
  ASSUME NEW c, NEW parts, NEW width, MixAsked(c, parts, width)
  PROVE  IsMixOf(c, parts, width)
<1> DEFINE W == 0 .. width - 1
           gains == ChannelGains(c, width)
           bm == BassOf(c)
           n == Len(c.bass.sources)
           active == bm.enabled /\ bm.lfe \in W
           K == ({bm.sources[i] : i \in DOMAIN bm.sources} \ {bm.lfe}) \cap W
           mix == Mix(parts, width)
           b == [ch \in W |-> mix[ch].bass]
           routed == [k \in K |-> RoutedTo(parts, k, "bass")]
           done == BassProcess(mix, bm)
<1>1. AreParts(parts) /\ width \in Nat /\ answer = ApplyGains(done, gains)
  BY DEF MixAsked
<1>2. mix \in [W -> Contents]
      /\ \A ch \in W : /\ mix[ch].bass = RoutedTo(parts, ch, "bass")
                       /\ mix[ch].treble = RoutedTo(parts, ch, "treble")
  BY <1>1, MixIsRouted
<1>3. /\ n \in Nat /\ DOMAIN bm.sources = 1 .. n
      /\ bm.enabled => \A i, j \in 1 .. n : bm.sources[i] = bm.sources[j] => i = j
  BY SourcesDiffer DEF MixAsked
<1>4. K = ManagedUpTo(W, bm, n)
  BY <1>3 DEF ManagedUpTo
<1> HIDE DEF W, gains, bm, n, mix
<1>5. IsManaged(done, W, mix, bm, n)
  BY <1>2, <1>3, BassIsManaged
<1>6. SumFunctionOnSet(b, K) = SumFunction(routed)
  <2>1. IsFiniteSet(K)
    <3>1. IsFiniteSet(W)
      BY <1>1, FS_Interval DEF W
    <3>q. QED
      BY <3>1, FS_Subset
  <2>2. \A k \in K : b[k] = routed[k]
    BY <1>2
  <2>3. SumFunction(routed) = SumFunctionOnSet(routed, K)
    BY DEF SumFunction
  <2> HIDE DEF b, routed, K
  <2>q. QED
    BY <2>1, <2>2, <2>3, SumFrame
<1>7. DOMAIN done = W
      /\ \A ch \in W :
           /\ done[ch].treble = mix[ch].treble
           /\ done[ch].bass = IF active /\ ch = bm.lfe THEN mix[ch].bass + SumFunctionOnSet(b, K)
                              ELSE IF active /\ bm.remove /\ ch \in K THEN 0 ELSE mix[ch].bass
  <2> HIDE DEF K, done
  <2>q. QED
    BY <1>4, <1>5 DEF IsManaged
<1>8. DOMAIN answer = W
      /\ \A ch \in W : /\ answer[ch].treble = gains[ch] * done[ch].treble
                       /\ answer[ch].bass = gains[ch] * done[ch].bass
  <2> HIDE DEF done
  <2>q. QED
    BY <1>1, <1>7 DEF ApplyGains, Times
<1> HIDE DEF done, routed, b, K
<1>q. QED
  BY <1>2, <1>6, <1>7, <1>8 DEF IsMixOf, routed, K, W, gains, bm

\* For any parts, maps and gains the treble of every channel is what is routed
\* there, calibrated.
LEMMA RoutesAreMixed == DecisionInv => MixAsRouted
<1> SUFFICES ASSUME DecisionInv, Answered("mix")
             PROVE  LET gains == ChannelGains(ask.config, ask.width)
                    IN  /\ DOMAIN answer = 0 .. ask.width - 1
                        /\ \A ch \in DOMAIN answer :
                             answer[ch].treble = gains[ch] * RoutedTo(ask.parts, ch, "treble")
  BY DEF MixAsRouted
<1>1. MixAsked(ask.config, ask.parts, ask.width)
  BY MixAnswered
<1>2. IsMixOf(ask.config, ask.parts, ask.width)
  BY <1>1, MixOfChannels
<1>q. QED
  BY <1>2 DEF IsMixOf

\* For any valid configuration the bass of every managed channel reaches the LFE
\* channel once.
LEMMA BassIsAccounted == DecisionInv => BassAccounted
<1> SUFFICES ASSUME DecisionInv, Answered("mix") PROVE BassAccounted
  BY DEF BassAccounted
<1>1. MixAsked(ask.config, ask.parts, ask.width)
  BY MixAnswered
<1>2. IsMixOf(ask.config, ask.parts, ask.width)
  BY <1>1, MixOfChannels
<1>q. QED
  BY <1>2 DEF IsMixOf, BassAccounted

\* For any loop, parts, maps, gains and bass management nothing jumps, is lost or
\* sounds twice.
THEOREM MixIsAccounted == DecisionSpec => []MixAccounted
<1>1. DecisionInv => MixAccounted
  BY LoopsAreSeamless, CorrectedAsPlain, RoutesAreMixed, BassIsAccounted DEF MixAccounted
<1>q. QED
  BY <1>1, DecisionInvariance, PTL

-----------------------------------------------------------------------------
(* Starting: what validation, the command line and the check of paths let  *)
(* through.                                                                *)

\* What a configuration question is about and how it is answered.
LEMMA ConfigAnswered ==
  ASSUME DecisionInv, Answered("config")
  PROVE  /\ ask.config \in Configs /\ ask.args \in CommandLines
         /\ answer = MergeCliArgs(ask.config, ask.args)
BY DEF DecisionInv, Answered, AskConfig

\* The channels of a valid configuration resolve.
LEMMA RoutesResolve ==
  ASSUME NEW c, NEW input, ValidInput(c, input), NEW k \in DOMAIN InputRoutes(c, input.routes)
  PROVE  Unresolved \notin {InputRoutes(c, input.routes)[k][1], InputRoutes(c, input.routes)[k][2]}
BY SMT DEF ValidInput

\* So does its bass management.
LEMMA BassResolves ==
  ASSUME NEW c, ValidBass(c), c.bass.enabled
  PROVE  LET r == ResolveBassManagement(c)
         IN  Unresolved \notin {r.lfe} \cup {r.sources[i] : i \in DOMAIN r.sources}
<1> DEFINE r == ResolveBassManagement(c)
<1>1. r.lfe # Unresolved /\ \A i \in DOMAIN r.sources : r.sources[i] # Unresolved
  BY Zenon DEF ValidBass
<1> HIDE DEF r
<1>2. Unresolved \notin {r.lfe} \cup {r.sources[i] : i \in DOMAIN r.sources}
  BY <1>1
<1>q. QED
  BY <1>2 DEF r

\* What validation lets through resolves at start-up and has a way to be told
\* what to do.
LEMMA ValidConfigStarts ==
  ASSUME NEW c, Valid(c), NEW width
  PROVE  /\ Resolves(c, width)
         /\ OperatingMode(c, TRUE) # "exit"
         /\ c.http.enabled => OperatingMode(c, FALSE) = "http"
<1>1. /\ ValidBass(c) /\ ValidAudio(c) /\ \A i \in DOMAIN c.inputs : ValidInput(c, c.inputs[i])
      /\ c.topic # "" \/ c.http.enabled
  BY Zenon DEF Valid
<1>2. \A i \in DOMAIN c.volumes : ResolveVolumeKey(c, c.volumes[i].key) # Unresolved
  <2>1. ValidAudio(c)
    BY <1>1
  <2>q. QED
    BY <2>1, SMT DEF ValidAudio
<1>3. \A i \in DOMAIN c.inputs :
        \A k \in DOMAIN InputRoutes(c, c.inputs[i].routes) :
          Unresolved \notin {InputRoutes(c, c.inputs[i].routes)[k][1],
                             InputRoutes(c, c.inputs[i].routes)[k][2]}
  BY <1>1, RoutesResolve, Zenon
<1>4. Resolves(c, width)
  BY <1>1, <1>2, <1>3, BassResolves, Zenon DEF Resolves
<1>5. OperatingMode(c, TRUE) # "exit"
  <2>1. CASE c.http.enabled
    BY <2>1, Zenon DEF OperatingMode
  <2>2. CASE ~c.http.enabled
    BY <1>1, <2>2, Zenon DEF OperatingMode
  <2>q. QED
    BY <2>1, <2>2
<1>6. c.http.enabled => OperatingMode(c, FALSE) = "http"
  BY Zenon DEF OperatingMode
<1>q. QED
  BY <1>4, <1>5, <1>6

\* For any configuration and command line what validates starts.
LEMMA ValidsStart == DecisionInv => ValidStarts
<1>1. \A c : Valid(c) =>
        /\ \A width \in Widths : Resolves(c, width)
        /\ OperatingMode(c, TRUE) # "exit"
        /\ c.http.enabled => OperatingMode(c, FALSE) = "http"
  BY ValidConfigStarts, Zenon
<1>q. QED
  BY <1>1, Zenon DEF ValidStarts

\* The place of a level in the order of severity.
LevelAt(level) == CHOOSE i \in DOMAIN Levels : Levels[i] = level

\* The levels are in that order.
LEMMA LevelsOrdered ==
  /\ LevelAt("error") = 1 /\ LevelAt("warn") = 2 /\ LevelAt("info") = 3
  /\ LevelAt("debug") = 4 /\ LevelAt("trace") = 5
  /\ Range(Levels) = {"error", "warn", "info", "debug", "trace"}
  /\ {Levels[i] : i \in DOMAIN Levels} = Range(Levels)
<1>1. DOMAIN Levels = 1 .. 5 /\ Levels[1] = "error" /\ Levels[2] = "warn" /\ Levels[3] = "info"
      /\ Levels[4] = "debug" /\ Levels[5] = "trace"
  BY DEF Levels
<1>2. {Levels[i] : i \in DOMAIN Levels} = {"error", "warn", "info", "debug", "trace"}
  <2>1. 1 .. 5 = {1, 2, 3, 4, 5}
    OBVIOUS
  <2>q. QED
    BY <1>1, <2>1
<1>3. ASSUME NEW k \in 1 .. 5 PROVE LevelAt(Levels[k]) = k
  <2>1. \A i \in 1 .. 5 : Levels[i] = Levels[k] => i = k
    <3>1. \A i \in 1 .. 5 : i = 1 \/ i = 2 \/ i = 3 \/ i = 4 \/ i = 5
      OBVIOUS
    <3>q. QED
      BY <1>1, <3>1
  <2>q. QED
    BY <1>1, <2>1 DEF LevelAt
<1>q. QED
  BY <1>1, <1>2, <1>3 DEF Range

\* A verbose log shows debug lines, and no log hides what its level shows.
LEMMA LogShows ==
  ASSUME NEW c
  PROVE  /\ c.verbose => Shows(c, "debug")
         /\ c.level \in Range(Levels) => Shows(c, c.level)
<1> DEFINE level == IF c.level \in {Levels[i] : i \in DOMAIN Levels} THEN c.level ELSE "info"
           shown == LogLevel(c)
<1>1. level \in Range(Levels)
  BY LevelsOrdered
<1>2. shown = IF c.verbose /\ LevelAt(level) < LevelAt("debug") THEN "debug" ELSE level
  BY DEF LogLevel, LevelAt
<1>3. \A l : Shows(c, l) <=> LevelAt(l) <= LevelAt(shown)
  BY DEF Shows, LevelAt
<1>4. c.level \in Range(Levels) => level = c.level
  BY LevelsOrdered
<1>5. \A l \in Range(Levels) : LevelAt(l) \in 1 .. 5
  BY LevelsOrdered
<1> HIDE DEF level, shown
<1>q. QED
  BY <1>1, <1>2, <1>3, <1>4, <1>5, LevelsOrdered

\* Field by field what the merge leaves.
IsMerged(merged, c, args) ==
  /\ merged.topic = OrText(args.topic, c.topic)
  /\ merged.sample_rate = Or(args.sample_rate, c.sample_rate)
  /\ merged.verbose = (c.verbose \/ args.verbose)
  /\ merged.level = IF args.verbose THEN "debug" ELSE c.level
  /\ merged.http.enabled = (c.http.enabled \/ args.http_port # Absent)
  /\ merged.http.port = Or(args.http_port, c.http.port)
  /\ \A f \in {"volumes", "names", "aliases", "bass", "inputs", "rules", "allowed"} :
       merged[f] = c[f]

\* The merge leaves a configuration so.
LEMMA Merged ==
  ASSUME NEW c, NEW args, ConfigFields \subseteq DOMAIN c, {"enabled", "port"} \subseteq DOMAIN c.http
  PROVE  IsMerged(MergeCliArgs(c, args), c, args)
<1> DEFINE merged == MergeCliArgs(c, args)
<1>1. merged.topic = OrText(args.topic, c.topic)
  BY Zenon DEF MergeCliArgs, ConfigFields
<1>2. merged.sample_rate = Or(args.sample_rate, c.sample_rate)
  BY Zenon DEF MergeCliArgs, ConfigFields
<1>3. merged.verbose = (c.verbose \/ args.verbose)
  BY Zenon DEF MergeCliArgs, ConfigFields
<1>4. merged.level = IF args.verbose THEN "debug" ELSE c.level
  BY Zenon DEF MergeCliArgs, ConfigFields
<1>5. merged.http.enabled = (c.http.enabled \/ args.http_port # Absent)
  BY Zenon DEF MergeCliArgs, ConfigFields
<1>6. merged.http.port = Or(args.http_port, c.http.port)
  BY Zenon DEF MergeCliArgs, ConfigFields
<1>7. \A f \in {"volumes", "names", "aliases", "bass", "inputs", "rules", "allowed"} :
        merged[f] = c[f]
  <2>1. merged.volumes = c.volumes /\ merged.names = c.names /\ merged.aliases = c.aliases
    BY Zenon DEF MergeCliArgs, ConfigFields
  <2>2. merged.bass = c.bass /\ merged.inputs = c.inputs /\ merged.rules = c.rules
    BY Zenon DEF MergeCliArgs, ConfigFields
  <2>3. merged.allowed = c.allowed
    BY Zenon DEF MergeCliArgs, ConfigFields
  <2> HIDE DEF merged
  <2>q. QED
    BY <2>1, <2>2, <2>3
<1>q. QED
  BY <1>1, <1>2, <1>3, <1>4, <1>5, <1>6, <1>7 DEF IsMerged

\* For any configuration and command line what the line names is in force and
\* all else is the file's.
LEMMA LineDecides == DecisionInv => CommandLineDecides
<1> SUFFICES ASSUME DecisionInv, Answered("config") PROVE CommandLineDecides
  BY DEF CommandLineDecides
<1> DEFINE file == ask.config
           line == ask.args
<1>1. file \in Configs /\ line \in CommandLines /\ answer = MergeCliArgs(file, line)
  BY ConfigAnswered
<1>2. /\ ConfigFields \subseteq DOMAIN file /\ {"enabled", "port"} \subseteq DOMAIN file.http
      /\ file.verbose \in BOOLEAN /\ file.http.enabled \in BOOLEAN /\ line.verbose \in BOOLEAN
  BY <1>1, ConfigAssumption
<1>3. IsMerged(answer, file, line)
  BY <1>1, <1>2, Merged, Zenon
<1> USE DEF IsMerged
<1>4. answer.topic = IF line.topic # "" THEN line.topic ELSE file.topic
  BY <1>3 DEF OrText
<1>5. answer.sample_rate = IF line.sample_rate # Absent THEN line.sample_rate ELSE file.sample_rate
  BY <1>3 DEF Or
<1>6. line.http_port # Absent => answer.http.enabled /\ answer.http.port = line.http_port
  BY <1>3, Zenon DEF Or
<1>7. file.http.enabled => answer.http.enabled
  BY <1>3, Zenon
<1>8. line.verbose \/ file.verbose => Shows(answer, "debug")
  BY <1>3, LogShows, Zenon
<1>9. ~line.verbose /\ file.level \in Range(Levels) => Shows(answer, file.level)
  BY <1>3, LogShows, Zenon
<1> HIDE DEF file, line
<1>q. QED
  BY <1>3, <1>4, <1>5, <1>6, <1>7, <1>8, <1>9, Zenon DEF CommandLineDecides, file, line

\* One name of a path followed.
Visit(at, name) ==
  LET next == Append(at, name)
  IN  IF at = Missing THEN Missing
      ELSE IF name = ".." THEN (IF at = << >> THEN at ELSE Front(at))
      ELSE IF next \in DOMAIN Links THEN Links[next]
      ELSE IF next \in Existing THEN next ELSE Missing

\* The function by which Canonical is defined.
IsWalk(g, path) ==
  g = [s \in SUBSET DOMAIN path |->
        IF s = {} THEN << >> ELSE Visit(g[s \ {Max(s)}], path[Max(s)])]

\* Canonical is the value of such a function at the whole path.
LEMMA CanonicalUnfolded ==
  ASSUME NEW path
  PROVE  Canonical(path) = (CHOOSE g : IsWalk(g, path))[DOMAIN path]
BY DEF Canonical, FoldLeft, MapThenFoldSet, IsWalk, Visit

\* A name leads from what exists to what exists, or nowhere.
LEMMA VisitExists ==
  ASSUME NEW at \in Existing \cup {Missing}, NEW name
  PROVE  Visit(at, name) \in Existing \cup {Missing}
BY PathAssumption DEF Visit

\* So does a path.
LEMMA CanonicalExists ==
  ASSUME NEW path, NEW n \in Nat, DOMAIN path = 1 .. n
  PROVE  Canonical(path) \in Existing \cup {Missing}
<1> DEFINE V == Existing \cup {Missing}
           st == [q \in (1 .. n) \X V |-> Visit(q[2], path[q[1]])]
<1>1. << >> \in V
  BY PathAssumption
<1>2. st \in [(1 .. n) \X V -> V]
  <2>1. \A q \in (1 .. n) \X V : Visit(q[2], path[q[1]]) \in V
    BY VisitExists
  <2>q. QED
    BY <2>1
<1>3. \A k \in 1 .. n, v \in V : st[<<k, v>>] = Visit(v, path[k])
  OBVIOUS
<1>4. \A v \in V, k \in 1 .. n : Visit(v, path[k]) \in V
  BY VisitExists
<1> HIDE DEF V, st
<1>5. PICK h \in [SUBSET (1 .. n) -> V] : Folds(h, st, << >>, n)
  BY <1>1, <1>2, FoldExists
<1>6. IsWalk(h, path)
  <2>1. ASSUME NEW s \in SUBSET (1 .. n), s # {}
        PROVE  h[s] = Visit(h[s \ {Max(s)}], path[Max(s)])
    <3>1. Max(s) \in s /\ h[s] = st[<<Max(s), h[s \ {Max(s)}]>>]
      BY <1>5, <2>1 DEF Folds
    <3>2. h[s \ {Max(s)}] \in V /\ Max(s) \in 1 .. n
      BY <1>5, <3>1
    <3>q. QED
      BY <1>3, <3>1, <3>2
  <2>2. h[{}] = << >>
    BY <1>5 DEF Folds
  <2>3. h = [s \in SUBSET (1 .. n) |-> h[s]]
    BY <1>5
  <2>4. \A s \in SUBSET (1 .. n) :
          h[s] = IF s = {} THEN << >> ELSE Visit(h[s \ {Max(s)}], path[Max(s)])
    BY <2>1, <2>2
  <2>q. QED
    BY <2>3, <2>4 DEF IsWalk
<1> DEFINE g == CHOOSE g : IsWalk(g, path)
           S == {k \in 0 .. n : g[1 .. k] \in V}
<1>7. IsWalk(g, path)
  BY <1>6
<1>8. Canonical(path) = g[1 .. n]
  BY CanonicalUnfolded
<1> HIDE DEF g
<1>9. 0 \in S
  <2>1. 1 .. 0 = {}
    OBVIOUS
  <2>2. g[{}] = << >>
    BY <1>7 DEF IsWalk
  <2>q. QED
    BY <1>1, <2>1, <2>2
<1>10. ASSUME NEW k \in 1 .. n, k - 1 \in S PROVE k \in S
  <2>1. /\ 1 .. k \in SUBSET (1 .. n) /\ 1 .. k # {}
        /\ Max(1 .. k) = k /\ (1 .. k) \ {k} = 1 .. (k - 1)
    BY FirstPlaces
  <2>2. g[1 .. k] = Visit(g[(1 .. k) \ {Max(1 .. k)}], path[Max(1 .. k)])
    BY <1>7, <2>1 DEF IsWalk
  <2>3. g[1 .. k] = Visit(g[1 .. (k - 1)], path[k])
    BY <2>1, <2>2
  <2>4. g[1 .. (k - 1)] \in V
    BY <1>10
  <2>q. QED
    BY <1>4, <2>3, <2>4
<1>11. n \in S
  <2> HIDE DEF S
  <2>1. \A k \in 0 .. n : k \in S
    BY <1>9, <1>10, AllUpTo
  <2>q. QED
    BY <2>1
<1>q. QED
  BY <1>8, <1>11 DEF V

\* The tilde at the front of a path makes it a longer one.
LEMMA Expanded ==
  ASSUME NEW path, IsSequence(path)
  PROVE  \E n \in Nat : DOMAIN ExpandTilde(path) = 1 .. n
<1>1. path \in Seq(Range(path)) /\ Home \in Seq(Range(Home))
  BY PathAssumption DEF IsSequence
<1>2. CASE path # << >> /\ Head(path) = "~"
  <2> DEFINE A == Range(path) \cup Range(Home)
  <2>1. path \in Seq(A) /\ Home \in Seq(A)
    <3>1. A # {} \/ A = {}
      OBVIOUS
    <3>q. QED
      BY <1>1, SMT
  <2> HIDE DEF A
  <2>2. Home \o Tail(path) \in Seq(A)
    BY <1>2, <2>1
  <2>q. QED
    BY <1>2, <2>2 DEF ExpandTilde
<1>3. CASE ~(path # << >> /\ Head(path) = "~")
  BY <1>1, <1>3 DEF ExpandTilde
<1>q. QED
  BY <1>2, <1>3

\* A file is below a directory when the directory is its path up to some name.
LEMMA PrefixIsBelow ==
  ASSUME NEW root, NEW file, IsSequence(root), IsSequence(file)
  PROVE  IsPrefix(root, file) <=> \E n \in 0 .. Len(file) : SubSeq(file, 1, n) = root
<1>1. /\ root \in Seq(Range(root)) /\ file \in Seq(Range(file))
      /\ Len(root) \in Nat /\ Len(file) \in Nat
  BY DEF IsSequence
<1>2. SubSeq(root, 1, Len(root)) = root
  BY <1>1
<1>3. ASSUME NEW n \in 0 .. Len(file), SubSeq(file, 1, n) = root PROVE IsPrefix(root, file)
  <2>1. Len(SubSeq(file, 1, n)) = n
    BY <1>1
  <2>2. Len(root) = n
    BY <1>3, <2>1
  <2>q. QED
    BY <1>2, <1>3, <2>2 DEF IsPrefix
<1>4. ASSUME IsPrefix(root, file) PROVE \E n \in 0 .. Len(file) : SubSeq(file, 1, n) = root
  <2>1. Len(root) <= Len(file) /\ SubSeq(file, 1, Len(root)) = root
    BY <1>2, <1>4 DEF IsPrefix
  <2>2. Len(root) \in 0 .. Len(file)
    BY <1>1, <2>1
  <2>q. QED
    BY <2>1, <2>2
<1>q. QED
  BY <1>3, <1>4

\* A channel that resolves is known.
LEMMA ResolvedIsKnown ==
  ASSUME NEW ref, NEW aliases, ref[1] \in {"num", "str"}, ResolveChannel(ref, aliases) # Unresolved
  PROVE  ref[1] = "num" \/ ref[2] \in DOMAIN Numeral \cup DOMAIN aliases
BY DEF ResolveChannel

\* What a file question is about and how it is answered.
LEMMA FileAnswered ==
  ASSUME DecisionInv, Answered("file")
  PROVE  /\ ask.path \in Paths /\ ask.dirs \in AllowedDirs /\ ask.map \in Maps
         /\ answer = Precheck([allowed |-> ask.dirs, aliases |-> Aliases],
                              ask.command, ask.path, ask.map)
BY DEF DecisionInv, Answered, AskFile

\* What a path expands and leads to.
Led(path) == Canonical(ExpandTilde(path))

\* Every path leads to what exists or nowhere, and what exists is no place
\* nowhere.
LEMMA LeadsSomewhere ==
  ASSUME NEW path, IsSequence(path)
  PROVE  Led(path) # Missing <=> Led(path) \in Existing
<1>1. PICK n \in Nat : DOMAIN ExpandTilde(path) = 1 .. n
  BY Expanded
<1>2. Led(path) \in Existing \cup {Missing}
  BY <1>1, CanonicalExists DEF Led
<1>q. QED
  BY <1>2, PathAssumption

\* The path is below one of the directories.
IsBelow(path, dirs) ==
  \E dir \in dirs : /\ Led(dir) # Missing
                    /\ \E n \in 0 .. Len(Led(path)) : SubSeq(Led(path), 1, n) = Led(dir)

\* A local path is let through when it leads to something below one of them.
LEMMA AllowedIsBelow ==
  ASSUME NEW path \in Paths, NEW dirs \in AllowedDirs, dirs # {}
  PROVE  IsLocalPathAllowed([allowed |-> dirs, aliases |-> Aliases], path)
           <=> IsUrl(path) \/ (Led(path) \in Existing /\ IsBelow(path, dirs))
<1>1. IsSequence(path) /\ \A dir \in dirs : IsSequence(dir)
  BY PathAssumption
<1>2. Led(path) # Missing <=> Led(path) \in Existing
  BY <1>1, LeadsSomewhere
<1>3. ASSUME NEW dir \in dirs, Led(dir) # Missing, Led(path) \in Existing
      PROVE  IsPrefix(Led(dir), Led(path))
               <=> \E n \in 0 .. Len(Led(path)) : SubSeq(Led(path), 1, n) = Led(dir)
  <2>1. Led(dir) \in Existing
    BY <1>1, <1>3, LeadsSomewhere
  <2>2. IsSequence(Led(dir)) /\ IsSequence(Led(path))
    BY <1>3, <2>1, PathAssumption
  <2>q. QED
    BY <2>2, PrefixIsBelow
<1>4. IsLocalPathAllowed([allowed |-> dirs, aliases |-> Aliases], path)
        <=> \/ IsUrl(path)
            \/ /\ Led(path) # Missing
               /\ \E dir \in dirs : Led(dir) # Missing /\ IsPrefix(Led(dir), Led(path))
  BY DEF IsLocalPathAllowed, Led
<1>5. Led(path) \in Existing =>
        (IsBelow(path, dirs) <=> \E dir \in dirs : Led(dir) # Missing /\ IsPrefix(Led(dir), Led(path)))
  BY <1>3, Zenon DEF IsBelow
<1>q. QED
  BY <1>2, <1>4, <1>5

\* For any directories, links, paths and maps what is let through stays inside,
\* and what plays goes where somebody knows.
LEMMA FilesStayInside == DecisionInv => PathsStayInside
<1> SUFFICES ASSUME DecisionInv, Answered("file"), ask.dirs # {} PROVE PathsStayInside
  BY DEF PathsStayInside
<1> DEFINE c == [allowed |-> ask.dirs, aliases |-> Aliases]
           routes == InputRoutes(c, ask.map)
           inside == IsLocalPathAllowed(c, ask.path)
           file == Led(ask.path)
           known(ref) == ref[1] = "num" \/ ref[2] \in DOMAIN Numeral \cup DOMAIN Aliases
<1>1. /\ ask.path \in Paths /\ ask.dirs \in AllowedDirs /\ ask.map \in Maps
      /\ answer = Precheck(c, ask.command, ask.path, ask.map)
  BY FileAnswered
<1>2. answer # "Forbidden" <=> inside
  BY <1>1, Zenon DEF Precheck
<1>3. inside <=> IsUrl(ask.path) \/ (file \in Existing /\ IsBelow(ask.path, ask.dirs))
  BY <1>1, AllowedIsBelow
<1>4. ASSUME ask.command = "play", answer = "Ok", NEW i \in DOMAIN ask.map
      PROVE  known(ask.map[i].src) /\ known(ask.map[i].dest)
  <2>1. \A k \in DOMAIN routes : Unresolved \notin {routes[k][1], routes[k][2]}
    BY <1>1, <1>4, Zenon DEF Precheck
  <2>2. /\ i \in DOMAIN routes
        /\ routes[i] = <<ResolveChannel(ask.map[i].src, Aliases),
                         ResolveChannel(ask.map[i].dest, Aliases)>>
    BY <1>4 DEF InputRoutes
  <2>3. /\ ResolveChannel(ask.map[i].src, Aliases) # Unresolved
        /\ ResolveChannel(ask.map[i].dest, Aliases) # Unresolved
    <3> HIDE DEF routes
    <3>q. QED
      BY <2>1, <2>2
  <2>4. ask.map[i].src[1] \in {"num", "str"} /\ ask.map[i].dest[1] \in {"num", "str"}
    BY <1>1, <1>4, MapAssumption
  <2>q. QED
    BY <2>3, <2>4, ResolvedIsKnown
<1>5. IsUrl(ask.path) <=> ask.path # << >> /\ Head(ask.path) = "http:"
  BY DEF IsUrl
<1>6. IF ask.path # << >> /\ Head(ask.path) = "http:" THEN answer # "Forbidden"
      ELSE IF answer # "Forbidden" THEN file \in Existing /\ IsBelow(ask.path, ask.dirs)
      ELSE ask.path = file => ~IsBelow(ask.path, ask.dirs) \/ file \notin Existing
  <2> HIDE DEF inside, file, c
  <2>q. QED
    BY <1>2, <1>3, <1>5
<1>q. QED
  BY <1>4, <1>6, Zenon DEF PathsStayInside, IsBelow, Led

\* For any configuration, command line, directories and links: what validates
\* starts, the command line is in force, and paths stay inside.
THEOREM StartIsAsConfigured == DecisionSpec => []StartsAsConfigured
<1>1. DecisionInv => StartsAsConfigured
  BY ValidsStart, LineDecides, FilesStayInside DEF StartsAsConfigured
<1>q. QED
  BY <1>1, DecisionInvariance, PTL

-----------------------------------------------------------------------------
(* Devices: the one that opens, the stream on it and the list of           *)
(* suggestions.                                                            *)

\* The least of some numbers is one of them, and no other is less.
LEMMA LeastIs ==
  ASSUME NEW N \in SUBSET Nat, N # {}
  PROVE  Least(N) \in N /\ \A n \in N : Least(N) <= n
BY LeastNatural DEF Least

\* The first of some places is one of them, and one that is there.
LEMMA FirstIs ==
  ASSUME NEW s, IsSequence(s), NEW places \in SUBSET (DOMAIN s)
  PROVE  /\ places # {} => First(places) \in places /\ First(places) # Nothing
         /\ places = {} => First(places) = Nothing
<1>1. places \in SUBSET Nat /\ 0 \notin places
  BY DEF IsSequence
<1>q. QED
  BY <1>1, LeastIs DEF First, Nothing

\* The greatest of some numbers that are all below a bound is one of them, and no
\* other is greater.
LEMMA GreatestIs ==
  ASSUME NEW N \in SUBSET Nat, N # {}, NEW bound \in Nat, \A n \in N : n <= bound
  PROVE  Greatest(N) \in N /\ \A n \in N : n <= Greatest(N)
<1> DEFINE below == {bound - n : n \in N}
<1>1. below \in SUBSET Nat /\ below # {}
  <2>1. \A n \in N : n \in Nat /\ n <= bound
    OBVIOUS
  <2>2. \A n \in N : bound - n \in Nat
    BY <2>1
  <2>q. QED
    BY <2>2
<1>2. PICK b \in below : \A c \in below : b <= c
  BY <1>1, LeastNatural
<1>3. PICK g \in N : b = bound - g
  OBVIOUS
<1>4. ASSUME NEW n \in N PROVE n <= g
  <2>1. b <= bound - n
    BY <1>2
  <2>q. QED
    BY <1>3, <2>1
<1>5. \E x \in N : \A y \in N : y <= x
  BY <1>4
<1>q. QED
  BY <1>5 DEF Greatest

\* What a device question is about and how it is answered.
LEMMA DeviceAnswered ==
  ASSUME DecisionInv, Answered("device")
  PROVE  /\ ask.names \in Listings /\ ask.later \in Listings /\ ask.input \in BOOLEAN
         /\ answer = IF ask.input THEN GetInputDevice(ask.requested, ask.names, ask.later)
                     ELSE FindOutputDevice(ask.requested, ask.names, ask.later)
<1>1. AskDevice
  BY DEF DecisionInv, Answered
<1>2. ask.names \in Listings /\ ask.later \in Listings /\ ask.input \in BOOLEAN
  BY <1>1 DEF AskDevice
<1>q. QED
  BY <1>2, Zenon DEF DecisionInv, Answered

\* A position that is resolved is that of the name, the number or a card of the
\* same name, in this order.
LEMMA PositionOf ==
  ASSUME NEW requested, NEW names \in Listings
  PROVE  LET position == ResolveRequestedDevice(requested, names)
             exact == \E i \in DOMAIN names : names[i].text = requested.text
             numbered == /\ requested.text \in DOMAIN DeviceNumeral
                         /\ DeviceNumeral[requested.text] + 1 \in DOMAIN names
         IN  /\ position # Nothing => position \in DOMAIN names
             /\ exact => position # Nothing /\ names[position].text = requested.text
             /\ ~exact /\ numbered => position = DeviceNumeral[requested.text] + 1
             /\ ~exact /\ ~numbered /\ position # Nothing =>
                  SameCard(requested.card, names[position].card)
<1> DEFINE position == ResolveRequestedDevice(requested, names)
           exact == {i \in DOMAIN names : names[i].text = requested.text}
           card == {i \in DOMAIN names : TryMatchAlsaDevice(requested, names[i])}
           number == DeviceNumeral[requested.text]
           known == requested.text \in DOMAIN DeviceNumeral
<1>1. IsSequence(names)
  BY DeviceAssumption
<1>2. /\ exact # {} => First(exact) \in exact /\ First(exact) # Nothing
      /\ card # {} => First(card) \in card
      /\ card = {} => First(card) = Nothing
  BY <1>1, FirstIs
<1>3. known => /\ number \in Nat
               /\ number < Len(names) <=> number + 1 \in DOMAIN names
  <2>1. Len(names) \in Nat /\ DOMAIN names = 1 .. Len(names)
    BY <1>1 DEF IsSequence
  <2>2. known => number \in Nat
    BY DeviceAssumption
  <2> HIDE DEF number
  <2>q. QED
    BY <2>1, <2>2
<1>4. position = IF exact # {} THEN First(exact)
                 ELSE IF known /\ number < Len(names) THEN number + 1 ELSE First(card)
  BY DEF ResolveRequestedDevice
<1>5. \A i \in card : SameCard(requested.card, names[i].card)
  BY DEF TryMatchAlsaDevice
<1> HIDE DEF position, card
<1>6. position # Nothing => position \in DOMAIN names
  BY <1>2, <1>3, <1>4 DEF card
<1>7. exact # {} => position # Nothing /\ names[position].text = requested.text
  BY <1>2, <1>4
<1>8. exact = {} /\ known /\ number + 1 \in DOMAIN names => position = number + 1
  BY <1>3, <1>4
<1>9. exact = {} /\ ~(known /\ number + 1 \in DOMAIN names) /\ position # Nothing
        => SameCard(requested.card, names[position].card)
  BY <1>2, <1>3, <1>4, <1>5
<1>q. QED
  BY <1>6, <1>7, <1>8, <1>9 DEF position

\* The device that opens is the one that was meant.
LEMMA DeviceIsAsNamed == DecisionInv => DeviceAsNamed
<1> SUFFICES ASSUME DecisionInv, Answered("device") PROVE DeviceAsNamed
  BY DEF DeviceAsNamed
<1> DEFINE requested == ask.requested
           names == ask.names
           later == ask.later
           exact == \E i \in DOMAIN names : names[i].text = requested.text
           known == requested.text \in DOMAIN DeviceNumeral
           number == IF ask.input /\ known THEN DeviceNumeral[requested.text] + 1 ELSE Nothing
           at(list) == {i \in DOMAIN list : list[i].text = answer}
           card(list) == \E i \in at(list) : SameCard(requested.card, list[i].card)
<1>1. /\ names \in Listings /\ later \in Listings /\ ask.input \in BOOLEAN
      /\ answer = IF ask.input THEN GetInputDevice(requested, names, later)
                  ELSE FindOutputDevice(requested, names, later)
  BY DeviceAnswered
<1>2. Nothing \notin DOMAIN names
  <2>1. IsSequence(names)
    BY <1>1, DeviceAssumption
  <2>2. DOMAIN names = 1 .. Len(names)
    BY <2>1 DEF IsSequence
  <2>q. QED
    BY <2>2 DEF Nothing
<1>3. CASE ask.input
  <2> DEFINE position == ResolveRequestedDevice(requested, names)
  <2>1. /\ position # Nothing => position \in DOMAIN names
        /\ exact => position # Nothing /\ names[position].text = requested.text
        /\ ~exact /\ known /\ DeviceNumeral[requested.text] + 1 \in DOMAIN names
             => position = DeviceNumeral[requested.text] + 1
        /\ ~exact /\ ~(known /\ DeviceNumeral[requested.text] + 1 \in DOMAIN names)
             /\ position # Nothing => SameCard(requested.card, names[position].card)
    BY <1>1, PositionOf
  <2>2. answer = IF position # Nothing /\ \E i \in DOMAIN later : later[i].text = names[position].text
                 THEN names[position].text ELSE ""
    BY <1>1, <1>3 DEF GetInputDevice
  <2> HIDE DEF position
  <2>3. position # Nothing => names[position].text # ""
    BY <1>1, <2>1, DeviceAssumption
  <2>4. CASE answer = ""
    <3>1. names = later => position = Nothing
      BY <2>1, <2>2, <2>3, <2>4
    <3>2. names = later => ~exact /\ number \notin DOMAIN names
      BY <1>2, <2>1, <3>1 DEF Nothing
    <3>q. QED
      BY <2>4, <3>2, Zenon DEF DeviceAsNamed
  <2>5. CASE answer # ""
    <3>1. /\ position # Nothing /\ position \in DOMAIN names /\ position \in at(names)
          /\ at(later) # {} /\ answer = names[position].text
      BY <2>1, <2>2, <2>5
    <3>2. IF exact THEN answer = requested.text
          ELSE number \in at(names) \/ card(names)
      BY <1>3, <2>1, <3>1
    <3>q. QED
      BY <1>3, <2>5, <3>1, <3>2, Zenon DEF DeviceAsNamed
  <2>q. QED
    BY <2>4, <2>5
<1>4. CASE ~ask.input
  <2> DEFINE places == {i \in DOMAIN later : TryMatchAlsaDevice(requested, later[i])}
  <2>1. answer = IF exact THEN requested.text
                 ELSE IF places # {} THEN later[First(places)].text ELSE ""
    BY <1>1, <1>4 DEF FindOutputDevice
  <2>2. places # {} => First(places) \in places
    BY <1>1, FirstIs, DeviceAssumption
  <2>3. /\ \A i \in places : SameCard(requested.card, later[i].card) /\ i \in DOMAIN later
        /\ \A i \in DOMAIN later : later[i].text # ""
        /\ \A i \in DOMAIN names : names[i].text # ""
    BY <1>1, DeviceAssumption DEF TryMatchAlsaDevice
  <2> HIDE DEF places
  <2>4. answer = "" => ~exact /\ number \notin DOMAIN names
    BY <1>2, <1>4, <2>1, <2>2, <2>3
  <2>5. answer # "" => IF exact THEN answer = requested.text ELSE card(later)
    BY <2>1, <2>2, <2>3
  <2>q. QED
    BY <1>4, <2>4, <2>5, Zenon DEF DeviceAsNamed
<1>q. QED
  BY <1>1, <1>3, <1>4

\* What a question about an input's format is about and how it is answered.
LEMMA CaptureAnswered ==
  ASSUME DecisionInv, Answered("capture")
  PROVE  /\ ask.formats \in Formats /\ ask.wanted \in Wanted /\ ask.routes \in Routings
         /\ answer = CreateInputStream(ask.formats, DefaultFormat, ask.routes,
                       [channels |-> ask.wanted.channels, sample_rate |-> Unset,
                        latency_ms |-> ask.wanted.latency],
                       ask.wanted.rate, ask.wanted.size, ask.rejected)
<1>1. AskCapture
  BY DEF DecisionInv, Answered
<1>2. ask.formats \in Formats /\ ask.wanted \in Wanted /\ ask.routes \in Routings
  BY <1>1 DEF AskCapture
<1>q. QED
  BY <1>2, Zenon DEF DecisionInv, Answered

\* Finitely many numbers have a bound.
LEMMA Bounded ==
  ASSUME NEW n \in Nat, NEW f, \A i \in 1 .. n : f[i] \in Nat
  PROVE  \E b \in Nat : \A i \in 1 .. n : f[i] <= b
<1> DEFINE S == {k \in 0 .. n : \E b \in Nat : \A i \in 1 .. k : f[i] <= b}
<1>1. 0 \in S
  OBVIOUS
<1>2. ASSUME NEW k \in 1 .. n, k - 1 \in S PROVE k \in S
  <2>1. PICK b \in Nat : \A i \in 1 .. (k - 1) : f[i] <= b
    BY <1>2
  <2>2. PICK c \in Nat : b <= c /\ f[k] <= c
    <3>1. f[k] \in Nat
      OBVIOUS
    <3>2. CASE b <= f[k]
      BY <3>1, <3>2
    <3>3. CASE ~(b <= f[k])
      BY <3>1, <3>3
    <3>q. QED
      BY <3>2, <3>3
  <2>3. ASSUME NEW i \in 1 .. k PROVE f[i] <= c
    <3>1. i \in 1 .. (k - 1) \/ i = k
      OBVIOUS
    <3>2. f[i] \in Nat
      OBVIOUS
    <3>q. QED
      BY <2>1, <2>2, <3>1, <3>2
  <2>q. QED
    BY <2>3
<1> HIDE DEF S
<1>3. n \in S
  BY <1>1, <1>2, AllUpTo
<1>q. QED
  BY <1>3 DEF S

\* The channels that routes need.
LEMMA RequiredType ==
  ASSUME NEW routes \in Routings
  PROVE  RequiredChannels(routes) \in Nat
<1> DEFINE needs == {routes[i][1] + 1 : i \in DOMAIN routes}
<1>1. CASE routes = << >>
  BY <1>1 DEF RequiredChannels
<1>2. CASE routes # << >>
  <2>1. IsSequence(routes) /\ \A i \in DOMAIN routes : routes[i][1] \in Nat
    BY FormatAssumption
  <2>2. PICK n \in Nat : n = Len(routes) /\ DOMAIN routes = 1 .. n
    BY <2>1 DEF IsSequence
  <2>3. DOMAIN routes # {}
    BY <1>2, <2>1 DEF IsSequence
  <2> DEFINE f == [i \in 1 .. n |-> routes[i][1] + 1]
  <2>4. \A i \in 1 .. n : f[i] = routes[i][1] + 1 /\ f[i] \in Nat
    BY <2>1, <2>2
  <2> HIDE DEF f
  <2>5. PICK b \in Nat : \A i \in 1 .. n : f[i] <= b
    BY <2>4, Bounded
  <2>6. needs \in SUBSET Nat /\ needs # {} /\ \A m \in needs : m <= b
    BY <2>2, <2>3, <2>4, <2>5
  <2> HIDE DEF needs
  <2>7. Greatest(needs) \in needs
    BY <2>6, GreatestIs
  <2>q. QED
    BY <1>2, <2>6, <2>7 DEF RequiredChannels, needs
<1>q. QED
  BY <1>1, <1>2

\* The rate chosen for a format is one it has, and the one asked for if it has it.
LEMMA RateInRange ==
  ASSUME NEW f, IsFormat(f), f.min <= MaxRate, NEW preferred \in 0 .. MaxRate,
         NEW rate, rate = ChooseCaptureRate(f, preferred)
  PROVE  /\ rate \in Nat /\ f.min <= rate /\ rate <= f.max
         /\ f.min <= preferred /\ preferred <= f.max => rate = preferred
<1> DEFINE low == f.min
           high == f.max
           raised == IF preferred < low THEN low ELSE preferred
<1>1. /\ low \in Nat /\ high \in Nat /\ low <= high /\ low <= MaxRate /\ MaxRate \in Nat
      /\ preferred \in Nat /\ preferred <= MaxRate
  <2>1. MaxRate \in Nat
    BY FormatAssumption
  <2>q. QED
    BY <2>1 DEF IsFormat
<1>2. rate = IF raised > (IF high < MaxRate THEN high ELSE MaxRate)
             THEN (IF high < MaxRate THEN high ELSE MaxRate) ELSE raised
  BY DEF ChooseCaptureRate
<1> HIDE DEF low, high
<1>3. rate \in Nat /\ low <= rate /\ rate <= high
  BY <1>1, <1>2
<1>4. low <= preferred /\ preferred <= high => rate = preferred
  BY <1>1, <1>2
<1>q. QED
  BY <1>3, <1>4 DEF low, high

\* A format that is found has the channels asked for, or enough, and a rate that one
\* of the formats with that many channels has.
UsableFormats(formats) ==
  {i \in DOMAIN formats : /\ formats[i].format = "f32"
                          /\ formats[i].min <= MaxRate
                          /\ formats[i].channels <= MaxInputChannels}
Allows(f, rate) == f.min <= rate /\ rate <= f.max

IsServing(chosen, formats, exact, minimum, preferred) ==
  LET same == {i \in UsableFormats(formats) : formats[i].channels = chosen.channels}
  IN  /\ chosen.channels \in Nat
      /\ UsableFormats(formats) # {} =>
           /\ \E i \in same : Allows(formats[i], chosen.rate)
           /\ (\E i \in same : Allows(formats[i], preferred)) => chosen.rate = preferred
           /\ exact = Unset =>
                \A i \in UsableFormats(formats) :
                  formats[i].channels # Nothing /\ formats[i].channels >= minimum =>
                  chosen.channels <= formats[i].channels

\* So every format that is found does.
LEMMA InputFormat ==
  ASSUME NEW formats \in Formats, NEW exact \in Nat \cup {Unset}, NEW minimum \in Nat,
         NEW preferred \in 0 .. MaxRate,
         NEW chosen, chosen = FindInputConfig(formats, DefaultFormat, exact, minimum, preferred),
         chosen.channels # Nothing
  PROVE  IsServing(chosen, formats, exact, minimum, preferred)
<1> DEFINE usable == UsableFormats(formats)
           plausible == {i \in DOMAIN formats : /\ formats[i].min <= MaxRate
                                                /\ formats[i].channels <= MaxInputChannels}
           float == {i \in plausible : formats[i].format = "f32"}
           offered == {formats[i].channels : i \in float}
           channels == SelectChannelCount(offered, exact, minimum)
           matching == {i \in float : formats[i].channels = channels}
           rate(i) == ChooseCaptureRate(formats[i], preferred)
           covers == {i \in matching : rate(i) = preferred}
           best == First(IF covers = {} THEN matching ELSE covers)
           allows(i, r) == Allows(formats[i], r)
<1>1. IsSequence(formats) /\ \A i \in DOMAIN formats : IsFormat(formats[i])
  BY FormatAssumption
<1>2. float = usable /\ (plausible = {} => usable = {})
  BY DEF UsableFormats
<1>3. chosen = IF plausible = {} THEN DefaultFormat
               ELSE IF channels = Nothing THEN Unusable
               ELSE [channels |-> channels, rate |-> rate(best)]
  BY DEF FindInputConfig
<1>4. CASE plausible = {}
  BY <1>2, <1>3, <1>4, FormatAssumption DEF IsServing
<1>5. CASE plausible # {} /\ channels = Nothing
  BY <1>3, <1>5 DEF Unusable
<1>6. CASE plausible # {} /\ channels # Nothing
  <2> DEFINE fitting == IF exact # Unset THEN offered \cap {exact}
                        ELSE {n \in offered : n >= minimum /\ n >= 1}
  <2>1. channels = IF fitting = {} THEN Nothing ELSE Least(fitting)
    BY DEF SelectChannelCount
  <2>2. offered \subseteq Nat
    BY <1>1 DEF IsFormat
  <2> HIDE DEF offered, channels
  <2>3. fitting \in SUBSET Nat /\ fitting # {} /\ fitting \subseteq offered
    BY <1>6, <2>1, <2>2
  <2>4. channels \in fitting /\ \A n \in fitting : channels <= n
    <3> HIDE DEF fitting
    <3>q. QED
      BY <2>1, <2>3, LeastIs
  <2>5. channels \in Nat /\ channels \in offered
    BY <2>3, <2>4
  <2>6. matching # {}
    BY <2>5 DEF offered
  <2>7. matching \in SUBSET (DOMAIN formats) /\ covers \in SUBSET (DOMAIN formats)
    OBVIOUS
  <2>8. best \in matching /\ (covers # {} => best \in covers)
    <3>1. matching # {} => First(matching) \in matching
      BY <1>1, <2>7, FirstIs
    <3>2. covers # {} => First(covers) \in covers
      BY <1>1, <2>7, FirstIs
    <3>3. covers \subseteq matching
      OBVIOUS
    <3> HIDE DEF matching, covers
    <3>q. QED
      BY <2>6, <3>1, <3>2, <3>3
  <2>9. ASSUME NEW i \in matching
        PROVE  /\ allows(i, rate(i))
               /\ allows(i, preferred) => i \in covers
    <3>1. IsFormat(formats[i]) /\ formats[i].min <= MaxRate
      BY <1>1
    <3>q. QED
      BY <3>1, RateInRange DEF Allows
  <2>10. chosen.channels = channels /\ chosen.rate = rate(best)
    BY <1>3, <1>6
  <2>11. covers # {} => rate(best) = preferred
    BY <2>8
  <2>12. exact = Unset =>
           \A i \in usable : formats[i].channels # Nothing /\ formats[i].channels >= minimum =>
             channels <= formats[i].channels
    <3> SUFFICES ASSUME exact = Unset, NEW i \in usable, formats[i].channels # Nothing,
                        formats[i].channels >= minimum
                 PROVE  channels <= formats[i].channels
      OBVIOUS
    <3>1. formats[i].channels \in offered /\ formats[i].channels \in Nat
      BY <1>2, <2>2 DEF offered
    <3>2. formats[i].channels >= 1
      BY <3>1 DEF Nothing
    <3>q. QED
      BY <2>4, <3>1, <3>2
  <2>13. {i \in usable : formats[i].channels = chosen.channels} = matching
    BY <1>2, <2>10
  <2>14. allows(best, chosen.rate) /\ best \in matching
    BY <2>8, <2>9, <2>10
  <2>15. (\E i \in matching : allows(i, preferred)) => chosen.rate = preferred
    BY <2>9, <2>10, <2>11
  <2> HIDE DEF usable, float, plausible, rate, covers, best, fitting, matching
  <2>16. /\ chosen.channels \in Nat
         /\ matching # {} /\ \E i \in matching : allows(i, chosen.rate)
         /\ exact = Unset =>
              \A i \in usable :
                formats[i].channels # Nothing /\ formats[i].channels >= minimum =>
                chosen.channels <= formats[i].channels
    BY <2>5, <2>10, <2>12, <2>14
  <2>q. QED
    BY <2>13, <2>15, <2>16 DEF usable, IsServing
<1>q. QED
  BY <1>4, <1>5, <1>6

\* More channels make a larger ring.
LEMMA RingGrows ==
  ASSUME NEW k \in Nat, NEW l \in Nat, NEW c \in Nat, NEW n \in Nat, c >= n
  PROVE  k * l * c * 4 >= 3 * l * k * n
<1>1. k * l \in Nat /\ k * l = l * k
  OBVIOUS
<1>2. \A p \in Nat : p * c * 4 >= 3 * p * n
  OBVIOUS
<1>3. (k * l) * c * 4 >= 3 * (k * l) * n
  BY <1>1, <1>2
<1>4. 3 * (k * l) * n = 3 * l * k * n
  BY <1>1
<1>q. QED
  BY <1>3, <1>4

\* An input that opens serves its routes.
LEMMA InputServes == DecisionInv => InputServesRoutes
<1> SUFFICES ASSUME DecisionInv, Answered("capture"), answer.channels # Nothing
             PROVE  InputServesRoutes
  BY DEF InputServesRoutes
<1> DEFINE formats == ask.formats
           wanted == ask.wanted
           needed == RequiredChannels(ask.routes)
           chosen == FindInputConfig(formats, DefaultFormat, wanted.channels, needed, wanted.rate)
           usable == UsableFormats(formats)
           same == {i \in usable : formats[i].channels = answer.channels}
           allows(i, rate) == Allows(formats[i], rate)
<1>1. /\ formats \in Formats /\ wanted \in Wanted /\ ask.routes \in Routings
      /\ answer = CreateInputStream(formats, DefaultFormat, ask.routes,
                    [channels |-> wanted.channels, sample_rate |-> Unset,
                     latency_ms |-> wanted.latency],
                    wanted.rate, wanted.size, ask.rejected)
  BY CaptureAnswered
<1>2. /\ needed \in Nat /\ MaxRate \in Nat
      /\ wanted.channels \in Nat \cup {Unset} /\ wanted.rate \in 0 .. MaxRate
      /\ wanted.latency \in Nat
  BY <1>1, RequiredType, FormatAssumption
<1>3. answer = IF chosen.channels = Nothing \/ chosen.channels < needed THEN Unusable
               ELSE [channels |-> chosen.channels, rate |-> chosen.rate,
                     ring |-> RingBufferSize(wanted.rate, chosen.channels, wanted.latency),
                     resampled |-> chosen.rate # wanted.rate,
                     buffer |-> IF ask.rejected THEN DefaultSize ELSE wanted.size]
  BY <1>1 DEF CreateInputStream
<1> HIDE DEF chosen, needed
<1>4. /\ chosen.channels # Nothing /\ ~(chosen.channels < needed)
      /\ answer.channels = chosen.channels /\ answer.rate = chosen.rate
      /\ answer.ring = RingBufferSize(wanted.rate, chosen.channels, wanted.latency)
      /\ answer.resampled = (chosen.rate # wanted.rate)
  BY <1>3 DEF Unusable
<1>5. IsServing(chosen, formats, wanted.channels, needed, wanted.rate)
  BY <1>1, <1>2, <1>4, InputFormat DEF chosen
<1>6. /\ chosen.channels \in Nat
      /\ usable # {} =>
           /\ \E i \in same : allows(i, answer.rate)
           /\ (\E i \in same : allows(i, wanted.rate)) => answer.rate = wanted.rate
           /\ wanted.channels = Unset =>
                \A i \in usable :
                  formats[i].channels # Nothing /\ formats[i].channels >= needed =>
                  answer.channels <= formats[i].channels
  BY <1>4, <1>5, Zenon DEF IsServing
<1>7. answer.channels >= needed
  BY <1>2, <1>4, <1>6
<1>8. answer.ring >= 3 * wanted.latency * (wanted.rate \div 1000) * needed
  <2>1. wanted.rate \div 1000 \in Nat
    BY <1>2
  <2>2. RingBufferSize(wanted.rate, chosen.channels, wanted.latency)
          = (wanted.rate \div 1000) * wanted.latency * chosen.channels * 4
    BY DEF RingBufferSize
  <2>3. (wanted.rate \div 1000) * wanted.latency * chosen.channels * 4
          >= 3 * wanted.latency * (wanted.rate \div 1000) * needed
    BY <1>2, <1>4, <1>6, <1>7, <2>1, RingGrows
  <2>q. QED
    BY <1>4, <2>2, <2>3
<1>9. answer.resampled = (answer.rate # wanted.rate)
  BY <1>4
<1> HIDE DEF usable, same
<1>10. (\E i \in same : allows(i, wanted.rate)) /\ usable # {} => ~answer.resampled
  BY <1>6, <1>9
<1>q. QED
  BY <1>6, <1>7, <1>8, <1>9, <1>10, Zenon
     DEF InputServesRoutes, usable, same, needed, UsableFormats, Allows

\* What a question about an output's format is about and how it is answered.
LEMMA OutputAnswered ==
  ASSUME DecisionInv, Answered("output")
  PROVE  /\ ask.formats \in Formats /\ ask.wanted \in Wanted
         /\ answer = FindOutputConfig(ask.formats, ask.wanted.channels, ask.wanted.rate,
                                      ask.wanted.size)
<1>1. AskOutput
  BY DEF DecisionInv, Answered
<1>2. ask.formats \in Formats /\ ask.wanted \in Wanted
  BY <1>1 DEF AskOutput
<1>q. QED
  BY <1>2, Zenon DEF DecisionInv, Answered

\* A buffer size is within the sizes of a format.
LEMMA SizeInRange ==
  ASSUME NEW f, IsFormat(f), NEW wanted \in Nat \cup {Unset}
  PROVE  LET buffer == ResolveBufferSize(wanted, f.sizes)
         IN  \/ f.sizes = UnknownSizes \/ buffer = DefaultSize
             \/ f.sizes[1] <= buffer /\ buffer <= f.sizes[2]
<1>1. CASE wanted = Unset
  BY <1>1 DEF ResolveBufferSize
<1>2. CASE wanted # Unset /\ f.sizes # UnknownSizes
  <2>1. f.sizes[1] \in Nat /\ f.sizes[2] \in Nat /\ f.sizes[1] <= f.sizes[2] /\ wanted \in Nat
    BY <1>2 DEF IsFormat
  <2>2. ResolveBufferSize(wanted, f.sizes)
          = IF wanted < f.sizes[1] THEN f.sizes[1] ELSE IF wanted > f.sizes[2] THEN f.sizes[2] ELSE wanted
    BY <1>2 DEF ResolveBufferSize
  <2>q. QED
    BY <2>1, <2>2
<1>q. QED
  BY <1>1, <1>2

\* A number below the modulus is its own remainder.
LEMMA SmallModulo ==
  ASSUME NEW m \in Nat \ {0}, NEW n \in Nat, n < m
  PROVE  n % m = n
OBVIOUS

\* An output is opened as one of its formats allows.
LEMMA OutputIsAsOffered == DecisionInv => OutputAsOffered
<1> SUFFICES ASSUME DecisionInv, Answered("output"), answer.channels # Nothing
             PROVE  OutputAsOffered
  BY DEF OutputAsOffered
<1> DEFINE formats == ask.formats
           wanted == ask.wanted
           target == TargetChannels(formats, wanted.channels)
           matching == {i \in DOMAIN formats : formats[i].channels = target}
           allows(i, rate) == formats[i].min <= rate /\ rate <= formats[i].max
           covers == {i \in matching : allows(i, wanted.rate)}
           place == First(IF covers = {} THEN matching ELSE covers)
           sized(i) == formats[i].sizes = UnknownSizes \/ answer.buffer = DefaultSize
                         \/ /\ formats[i].sizes[1] <= answer.buffer
                            /\ answer.buffer <= formats[i].sizes[2]
<1> HIDE DEF target
<1>1. /\ formats \in Formats /\ wanted \in Wanted
      /\ answer = FindOutputConfig(formats, wanted.channels, wanted.rate, wanted.size)
  BY OutputAnswered
<1>2. /\ IsSequence(formats) /\ \A i \in DOMAIN formats : IsFormat(formats[i])
      /\ wanted.channels \in Nat \cup {Unset} /\ wanted.size \in Nat \cup {Unset}
      /\ wanted.rate \in 0 .. MaxRate /\ MaxRate \in Nat
  BY <1>1, FormatAssumption
<1>3. answer = IF matching = {} \/ (covers = {} /\ formats[place].min > MaxRate) THEN Unusable
               ELSE [channels |-> target,
                     rate |-> IF covers # {} THEN wanted.rate
                              ELSE ChooseCaptureRate(formats[place], wanted.rate),
                     buffer |-> ResolveBufferSize(wanted.size, formats[place].sizes)]
  BY <1>1 DEF FindOutputConfig, target
<1>4. /\ matching # {} /\ (covers = {} => ~(formats[place].min > MaxRate))
      /\ answer.channels = target
      /\ answer.rate = IF covers # {} THEN wanted.rate
                       ELSE ChooseCaptureRate(formats[place], wanted.rate)
      /\ answer.buffer = ResolveBufferSize(wanted.size, formats[place].sizes)
  BY <1>3 DEF Unusable
<1> DEFINE same == {i \in DOMAIN formats : formats[i].channels = answer.channels}
<1>5. same = matching
  BY <1>4
<1>6. place \in matching /\ (covers # {} => place \in covers)
  <2>1. matching \in SUBSET (DOMAIN formats) /\ covers \in SUBSET (DOMAIN formats)
    OBVIOUS
  <2>2. matching # {} => First(matching) \in matching
    BY <1>2, <2>1, FirstIs
  <2>3. covers # {} => First(covers) \in covers
    BY <1>2, <2>1, FirstIs
  <2>4. covers \subseteq matching
    OBVIOUS
  <2> HIDE DEF matching, covers
  <2>q. QED
    BY <1>4, <2>2, <2>3, <2>4
<1>7. IsFormat(formats[place])
  BY <1>2, <1>6
<1>8. sized(place)
  <2> HIDE DEF place
  <2>q. QED
    BY <1>2, <1>4, <1>7, SizeInRange
<1>9. allows(place, answer.rate)
  <2>1. CASE covers # {}
    BY <1>4, <1>6, <2>1
  <2>2. CASE covers = {}
    <3>1. answer.rate = ChooseCaptureRate(formats[place], wanted.rate)
      BY <1>4, <2>2
    <3>2. ~(formats[place].min > MaxRate) /\ formats[place].min \in Nat
      BY <1>4, <1>7, <2>2 DEF IsFormat
    <3> HIDE DEF place, covers, matching
    <3>3. formats[place].min <= MaxRate
      BY <1>2, <3>2
    <3>q. QED
      BY <1>2, <1>7, <3>1, <3>3, RateInRange
  <2>q. QED
    BY <2>1, <2>2
<1>10. (\E i \in matching : allows(i, wanted.rate)) => answer.rate = wanted.rate
  <2>1. (\E i \in matching : allows(i, wanted.rate)) => covers # {}
    OBVIOUS
  <2>q. QED
    BY <1>4, <2>1
<1>11. wanted.channels # Unset /\ wanted.channels < U16Range => answer.channels = wanted.channels
  <2>1. U16Range \in Nat \ {0}
    BY DEF U16Range
  <2>2. wanted.channels # Unset => target = wanted.channels % U16Range
    BY Zenon DEF target, TargetChannels
  <2>3. wanted.channels # Unset => wanted.channels \in Nat
    BY <1>2
  <2>4. answer.channels = target
    BY <1>4
  <2>5. wanted.channels # Unset /\ wanted.channels < U16Range
          => wanted.channels % U16Range = wanted.channels
    BY <2>1, <2>3, SmallModulo
  <2>q. QED
    BY <2>2, <2>4, <2>5
<1>12. /\ \E i \in same : allows(i, answer.rate) /\ sized(i)
       /\ (\E i \in same : allows(i, wanted.rate)) => answer.rate = wanted.rate
  <2> HIDE DEF matching, covers, place, same
  <2>q. QED
    BY <1>5, <1>6, <1>8, <1>9, <1>10
<1>q. QED
  BY <1>11, <1>12, Zenon DEF OutputAsOffered

\* What a question about the list of devices is about and how it is answered.
LEMMA ListingAnswered ==
  ASSUME DecisionInv, Answered("listing")
  PROVE  ask.hints \in Listings /\ answer = ProbeAlsaDevices(ask.hints, ask.failing)
<1>1. AskListing
  BY DEF DecisionInv, Answered
<1>2. ask.hints \in Listings
  BY <1>1 DEF AskListing
<1>q. QED
  BY <1>2, Zenon DEF DecisionInv, Answered

Entry(name, category) == [text |-> name.text, category |-> category]
Entries(hints, failing) ==
  [text : {hints[i].text : i \in DOMAIN hints},
   category : {CategoryOf(hints[i], failing) : i \in DOMAIN hints} \cup {"Suggested"}]
Usable == {"PluginHardware", "Virtual", "System"}

\* A list with one more hint.
WithHint(list, name, failing) ==
  IF name.text = "null" \/ \E i \in DOMAIN list : list[i].text = name.text
  THEN list
  ELSE IF ShouldSuggestDevice(name, CategoryOf(name, failing))
       THEN list \o <<Entry(name, "Suggested"), Entry(name, CategoryOf(name, failing))>>
       ELSE Append(list, Entry(name, CategoryOf(name, failing)))

\* The function by which ProbeAlsaDevices is defined.
IsProbe(g, hints, failing) ==
  g = [s \in SUBSET DOMAIN hints |->
        IF s = {} THEN << >> ELSE WithHint(g[s \ {Max(s)}], hints[Max(s)], failing)]

\* ProbeAlsaDevices is the value of such a function at all the hints.
LEMMA ProbeUnfolded ==
  ASSUME NEW hints, NEW failing
  PROVE  ProbeAlsaDevices(hints, failing) = (CHOOSE g : IsProbe(g, hints, failing))[DOMAIN hints]
BY DEF ProbeAlsaDevices, FoldLeft, MapThenFoldSet, IsProbe, WithHint, Entry

\* A hint keeps the list a list of entries.
LEMMA WithHintType ==
  ASSUME NEW hints, NEW failing, NEW j \in DOMAIN hints, NEW list \in Seq(Entries(hints, failing))
  PROVE  WithHint(list, hints[j], failing) \in Seq(Entries(hints, failing))
<1> DEFINE name == hints[j]
           E == Entries(hints, failing)
           twice == Entry(name, "Suggested")
           once == Entry(name, CategoryOf(name, failing))
<1>1. twice \in E /\ once \in E
  BY DEF Entries, Entry
<1>2. WithHint(list, name, failing) \in {list, list \o <<twice, once>>, Append(list, once)}
  BY Zenon DEF WithHint
<1> HIDE DEF twice, once, E
<1>3. list \in Seq(E)
  BY DEF E
<1>4. list \o <<twice, once>> \in Seq(E) /\ Append(list, once) \in Seq(E)
  BY <1>1, <1>3
<1>q. QED
  BY <1>2, <1>3, <1>4 DEF E, name

\* The hints are listed one by one.
IsHintByHint(a, hints, failing) ==
  /\ a[0] = << >>
  /\ \A j \in 1 .. Len(hints) : a[j] = WithHint(a[j - 1], hints[j], failing)
  /\ \A j \in 0 .. Len(hints) : a[j] \in Seq(Entries(hints, failing))
  /\ ProbeAlsaDevices(hints, failing) = a[Len(hints)]

\* So it is done for all of them.
LEMMA HintByHint ==
  ASSUME NEW hints, IsSequence(hints), NEW failing
  PROVE  \E a : IsHintByHint(a, hints, failing)
<1> DEFINE n == Len(hints)
           V == Seq(Entries(hints, failing))
           st == [q \in (1 .. n) \X V |-> WithHint(q[2], hints[q[1]], failing)]
<1>1. n \in Nat /\ DOMAIN hints = 1 .. n
  BY SequenceDomain
<1>2. st \in [(1 .. n) \X V -> V]
  <2>1. \A q \in (1 .. n) \X V : WithHint(q[2], hints[q[1]], failing) \in V
    BY <1>1, WithHintType
  <2>q. QED
    BY <2>1
<1>3. \A j \in 1 .. n, v \in V : st[<<j, v>>] = WithHint(v, hints[j], failing)
  OBVIOUS
<1>4. << >> \in V
  OBVIOUS
<1> HIDE DEF n, st, V
<1>5. PICK h \in [SUBSET (1 .. n) -> V] : Folds(h, st, << >>, n)
  BY <1>1, <1>2, <1>4, FoldExists
<1>6. IsProbe(h, hints, failing)
  <2>1. ASSUME NEW s \in SUBSET (1 .. n), s # {}
        PROVE  h[s] = WithHint(h[s \ {Max(s)}], hints[Max(s)], failing)
    <3>1. Max(s) \in s /\ h[s] = st[<<Max(s), h[s \ {Max(s)}]>>]
      BY <1>5, <2>1 DEF Folds
    <3>2. h[s \ {Max(s)}] \in V /\ Max(s) \in 1 .. n
      BY <1>5, <3>1
    <3>q. QED
      BY <1>3, <3>1, <3>2
  <2>2. h[{}] = << >>
    BY <1>5 DEF Folds
  <2>3. h = [s \in SUBSET (1 .. n) |-> h[s]]
    BY <1>5
  <2>4. \A s \in SUBSET (1 .. n) :
          h[s] = IF s = {} THEN << >> ELSE WithHint(h[s \ {Max(s)}], hints[Max(s)], failing)
    BY <2>1, <2>2
  <2>q. QED
    BY <1>1, <2>3, <2>4 DEF IsProbe
<1> DEFINE g == CHOOSE g : IsProbe(g, hints, failing)
           a == [j \in 0 .. n |-> g[1 .. j]]
<1>7. IsProbe(g, hints, failing)
  BY <1>6
<1>8. ProbeAlsaDevices(hints, failing) = g[1 .. n]
  BY <1>1, ProbeUnfolded
<1> HIDE DEF g
<1>9. a[0] = << >>
  <2>1. 1 .. 0 = {}
    OBVIOUS
  <2>2. g[{}] = << >>
    BY <1>7 DEF IsProbe
  <2>q. QED
    BY <1>1, <2>1, <2>2
<1>10. ASSUME NEW j \in 1 .. n PROVE a[j] = WithHint(a[j - 1], hints[j], failing)
  <2>1. /\ 1 .. j \in SUBSET (1 .. n) /\ 1 .. j # {}
        /\ Max(1 .. j) = j /\ (1 .. j) \ {j} = 1 .. (j - 1)
    BY <1>1, FirstPlaces
  <2>2. g[1 .. j] = WithHint(g[(1 .. j) \ {Max(1 .. j)}], hints[Max(1 .. j)], failing)
    BY <1>1, <1>7, <2>1 DEF IsProbe
  <2>3. a[j] = g[1 .. j] /\ a[j - 1] = g[1 .. (j - 1)]
    BY <1>1
  <2>q. QED
    BY <2>1, <2>2, <2>3
<1>11. a[n] = g[1 .. n]
  BY <1>1
<1> HIDE DEF a
<1>12. \A j \in 0 .. n : a[j] \in V
  <2> DEFINE S == {j \in 0 .. n : a[j] \in V}
  <2>1. 0 \in S
    BY <1>1, <1>4, <1>9
  <2>2. ASSUME NEW j \in 1 .. n, j - 1 \in S PROVE j \in S
    <3>1. a[j - 1] \in V /\ j \in DOMAIN hints /\ j \in 0 .. n
      BY <1>1, <2>2
    <3>2. a[j] \in V
      BY <1>10, <3>1, WithHintType DEF V
    <3>q. QED
      BY <3>1, <3>2
  <2> HIDE DEF S
  <2>3. \A j \in 0 .. n : j \in S
    BY <1>1, <2>1, <2>2, AllUpTo
  <2>q. QED
    BY <2>3 DEF S
<1>13. IsHintByHint(a, hints, failing)
  BY <1>8, <1>9, <1>10, <1>11, <1>12 DEF IsHintByHint, n, V
<1>q. QED
  BY <1>13

\* A list of devices in which every suggestion stands before the entry of its
\* device, that lists the given names once each.
ListedIn(list) == {i \in DOMAIN list : list[i].category # "Suggested"}

IsListing(list, texts) ==
  /\ \A i, j \in ListedIn(list) : list[i].text = list[j].text => i = j
  /\ \A i \in DOMAIN list \ ListedIn(list) :
       /\ i + 1 \in ListedIn(list) /\ list[i + 1].text = list[i].text
       /\ list[i + 1].category \in Usable
  /\ \A i \in ListedIn(list) : list[i].text \in texts
  /\ \A t \in texts : \E i \in ListedIn(list) : list[i].text = t

\* A device that is not in the list yet can be added to it.
LEMMA ListGrows ==
  ASSUME NEW E, NEW list \in Seq(E), NEW texts, IsListing(list, texts),
         NEW once \in E, once.category # "Suggested", once.text \notin texts
  PROVE  IsListing(Append(list, once), texts \cup {once.text})
<1> DEFINE n == Len(list)
           more == Append(list, once)
<1>1. /\ n \in Nat /\ DOMAIN list = 1 .. n /\ DOMAIN more = 1 .. (n + 1)
      /\ \A i \in 1 .. n : more[i] = list[i]
      /\ more[n + 1] = once
  OBVIOUS
<1> HIDE DEF n, more
<1>2. ListedIn(more) = ListedIn(list) \cup {n + 1}
  <2>1. ASSUME NEW i \in 1 .. (n + 1)
        PROVE  i \in ListedIn(more) <=> i \in ListedIn(list) \/ i = n + 1
    BY <1>1, <2>1 DEF ListedIn
  <2>q. QED
    BY <1>1, <2>1 DEF ListedIn
<1>3. \A i \in ListedIn(list) : i \in 1 .. n /\ more[i] = list[i] /\ list[i].text \in texts
  BY <1>1 DEF IsListing, ListedIn
<1>4. \A i, j \in ListedIn(more) : more[i].text = more[j].text => i = j
  BY <1>1, <1>2, <1>3 DEF IsListing
<1>5. ASSUME NEW i \in DOMAIN more \ ListedIn(more)
      PROVE  /\ i + 1 \in ListedIn(more) /\ more[i + 1].text = more[i].text
             /\ more[i + 1].category \in Usable
  <2>1. i \in DOMAIN list \ ListedIn(list)
    BY <1>1, <1>2
  <2>2. /\ i + 1 \in ListedIn(list) /\ list[i + 1].text = list[i].text
        /\ list[i + 1].category \in Usable
    BY <2>1 DEF IsListing
  <2>q. QED
    BY <1>1, <1>2, <1>3, <2>1, <2>2
<1>6. \A i \in ListedIn(more) : more[i].text \in texts \cup {once.text}
  BY <1>1, <1>2, <1>3
<1>7. \A t \in texts \cup {once.text} : \E i \in ListedIn(more) : more[i].text = t
  BY <1>1, <1>2, <1>3 DEF IsListing
<1>q. QED
  BY <1>4, <1>5, <1>6, <1>7 DEF IsListing, more

\* And so can a suggestion of it with it.
LEMMA ListGrowsTwice ==
  ASSUME NEW E, NEW list \in Seq(E), NEW texts, IsListing(list, texts),
         NEW once \in E, NEW twice \in E, twice.category = "Suggested",
         twice.text = once.text, once.category \in Usable, once.text \notin texts
  PROVE  IsListing(list \o <<twice, once>>, texts \cup {once.text})
<1> DEFINE n == Len(list)
           more == list \o <<twice, once>>
<1>1. /\ n \in Nat /\ DOMAIN list = 1 .. n /\ DOMAIN more = 1 .. (n + 2)
      /\ \A i \in 1 .. n : more[i] = list[i]
      /\ more[n + 1] = twice /\ more[n + 2] = once
  OBVIOUS
<1>2. once.category # "Suggested"
  BY DEF Usable
<1> HIDE DEF n, more
<1>3. ListedIn(more) = ListedIn(list) \cup {n + 2}
  <2>1. ASSUME NEW i \in 1 .. (n + 2)
        PROVE  i \in ListedIn(more) <=> i \in ListedIn(list) \/ i = n + 2
    BY <1>1, <1>2, <2>1 DEF ListedIn
  <2>q. QED
    BY <1>1, <2>1 DEF ListedIn
<1>4. \A i \in ListedIn(list) : i \in 1 .. n /\ more[i] = list[i] /\ list[i].text \in texts
  BY <1>1 DEF IsListing, ListedIn
<1>5. \A i, j \in ListedIn(more) : more[i].text = more[j].text => i = j
  BY <1>1, <1>3, <1>4 DEF IsListing
<1>6. ASSUME NEW i \in DOMAIN more \ ListedIn(more)
      PROVE  /\ i + 1 \in ListedIn(more) /\ more[i + 1].text = more[i].text
             /\ more[i + 1].category \in Usable
  <2>1. i \in DOMAIN list \ ListedIn(list) \/ i = n + 1
    BY <1>1, <1>3
  <2>2. CASE i = n + 1
    BY <1>1, <1>3, <2>2
  <2>3. CASE i \in DOMAIN list \ ListedIn(list)
    <3>1. /\ i + 1 \in ListedIn(list) /\ list[i + 1].text = list[i].text
          /\ list[i + 1].category \in Usable
      BY <2>3 DEF IsListing
    <3>q. QED
      BY <1>1, <1>3, <1>4, <2>3, <3>1
  <2>q. QED
    BY <2>1, <2>2, <2>3
<1>7. \A i \in ListedIn(more) : more[i].text \in texts \cup {once.text}
  BY <1>1, <1>3, <1>4
<1>8. \A t \in texts \cup {once.text} : \E i \in ListedIn(more) : more[i].text = t
  BY <1>1, <1>3, <1>4 DEF IsListing
<1>q. QED
  BY <1>5, <1>6, <1>7, <1>8 DEF IsListing, more

\* No device's own category is that of a suggestion, and only usable ones are
\* suggested.
LEMMA OwnCategory ==
  ASSUME NEW name, NEW failing
  PROVE  /\ CategoryOf(name, failing) # "Suggested"
         /\ ShouldSuggestDevice(name, CategoryOf(name, failing)) =>
              CategoryOf(name, failing) \in Usable
<1>1. ClassifyDeviceName(name) # "Suggested"
  BY DEF ClassifyDeviceName
<1>2. CategoryOf(name, failing) \in {ClassifyDeviceName(name), "Unavailable"}
  BY Zenon DEF CategoryOf
<1>3. \A category : ShouldSuggestDevice(name, category) => category \in Usable
  BY DEF ShouldSuggestDevice, Usable
<1>q. QED
  BY <1>1, <1>2, <1>3

\* A hint lists its device, if it is one and is not listed yet.
LEMMA HintListed ==
  ASSUME NEW hints, NEW failing, NEW j \in DOMAIN hints,
         NEW list \in Seq(Entries(hints, failing)), NEW texts, IsListing(list, texts)
  PROVE  IsListing(WithHint(list, hints[j], failing), texts \cup ({hints[j].text} \ {"null"}))
<1> DEFINE name == hints[j]
           E == Entries(hints, failing)
           category == CategoryOf(name, failing)
           once == Entry(name, category)
           twice == Entry(name, "Suggested")
<1>1. /\ once \in E /\ once.category = category /\ once.text = name.text
      /\ twice \in E /\ twice.category = "Suggested" /\ twice.text = name.text
  BY DEF Entries, Entry
<1>2. category # "Suggested" /\ (ShouldSuggestDevice(name, category) => category \in Usable)
  BY OwnCategory
<1>3. (\E i \in DOMAIN list : list[i].text = name.text) <=> name.text \in texts
  <2>1. ASSUME NEW i \in DOMAIN list PROVE list[i].text \in texts
    <3>1. CASE i \in ListedIn(list)
      BY <3>1 DEF IsListing
    <3>2. CASE i \notin ListedIn(list)
      BY <3>2 DEF IsListing
    <3>q. QED
      BY <3>1, <3>2
  <2>2. \A t \in texts : \E i \in DOMAIN list : list[i].text = t
    BY DEF IsListing, ListedIn
  <2>q. QED
    BY <2>1, <2>2
<1>4. WithHint(list, name, failing)
        = IF name.text = "null" \/ \E i \in DOMAIN list : list[i].text = name.text THEN list
          ELSE IF ShouldSuggestDevice(name, category) THEN list \o <<twice, once>>
          ELSE Append(list, once)
  BY DEF WithHint
<1> DEFINE known == texts \cup ({name.text} \ {"null"})
<1>5. name.text = "null" \/ name.text \in texts => known = texts
  OBVIOUS
<1>6. name.text # "null" => known = texts \cup {name.text}
  OBVIOUS
<1> HIDE DEF E, once, twice, category, known
<1>7. CASE name.text = "null" \/ name.text \in texts
  BY <1>3, <1>4, <1>5, <1>7 DEF known
<1>8. CASE name.text # "null" /\ name.text \notin texts /\ ShouldSuggestDevice(name, category)
  <2>1. IsListing(list \o <<twice, once>>, texts \cup {once.text})
    BY <1>1, <1>2, <1>8, ListGrowsTwice DEF E
  <2>q. QED
    BY <1>1, <1>3, <1>4, <1>6, <1>8, <2>1 DEF known
<1>9. CASE name.text # "null" /\ name.text \notin texts /\ ~ShouldSuggestDevice(name, category)
  <2>1. IsListing(Append(list, once), texts \cup {once.text})
    BY <1>1, <1>2, <1>9, ListGrows DEF E
  <2>q. QED
    BY <1>1, <1>3, <1>4, <1>6, <1>9, <2>1 DEF known
<1>q. QED
  BY <1>7, <1>8, <1>9

\* The list suggests only devices that can be used and lists every device once.
LEMMA SuggestionsAreUsable == DecisionInv => SuggestionsUsable
<1> SUFFICES ASSUME DecisionInv, Answered("listing") PROVE SuggestionsUsable
  BY DEF SuggestionsUsable
<1> DEFINE hints == ask.hints
           n == Len(hints)
           T(k) == {hints[q].text : q \in 1 .. k} \ {"null"}
<1>1. /\ answer = ProbeAlsaDevices(hints, ask.failing)
      /\ IsSequence(hints) /\ n \in Nat /\ DOMAIN hints = 1 .. n
  BY ListingAnswered, DeviceAssumption, SequenceDomain
<1>2. PICK a : IsHintByHint(a, hints, ask.failing)
  BY <1>1, HintByHint
<1> DEFINE S == {k \in 0 .. n : IsListing(a[k], T(k))}
<1>3. 0 \in S
  <2>1. a[0] = << >> /\ 0 \in 0 .. n
    BY <1>1, <1>2 DEF IsHintByHint
  <2>2. DOMAIN << >> = {} /\ T(0) = {}
    OBVIOUS
  <2>3. IsListing(<< >>, T(0))
    BY <2>2 DEF IsListing, ListedIn
  <2>q. QED
    BY <2>1, <2>3
<1>4. ASSUME NEW k \in 1 .. n, k - 1 \in S PROVE k \in S
  <2>1. /\ IsListing(a[k - 1], T(k - 1)) /\ k \in DOMAIN hints
        /\ k - 1 \in 0 .. n /\ k \in 0 .. n
    BY <1>1, <1>4
  <2>2. /\ a[k] = WithHint(a[k - 1], hints[k], ask.failing)
        /\ a[k - 1] \in Seq(Entries(hints, ask.failing))
    BY <1>2, <2>1 DEF IsHintByHint
  <2>3. T(k) = T(k - 1) \cup ({hints[k].text} \ {"null"})
    <3>1. 1 .. k = (1 .. (k - 1)) \cup {k}
      BY <1>1
    <3>q. QED
      BY <3>1
  <2> HIDE DEF T, hints
  <2>4. IsListing(WithHint(a[k - 1], hints[k], ask.failing),
                  T(k - 1) \cup ({hints[k].text} \ {"null"}))
    BY <2>1, <2>2, HintListed
  <2>5. IsListing(a[k], T(k))
    BY <2>2, <2>3, <2>4, Zenon
  <2>q. QED
    BY <2>1, <2>5
<1>5. IsListing(answer, T(n))
  <2> HIDE DEF S, T
  <2>1. \A k \in 0 .. n : k \in S
    BY <1>1, <1>3, <1>4, AllUpTo
  <2>2. n \in S
    BY <1>1, <2>1
  <2>3. answer = a[n]
    BY <1>1, <1>2 DEF IsHintByHint
  <2>q. QED
    BY <2>2, <2>3 DEF S
<1>6. T(n) = {hints[k].text : k \in DOMAIN hints} \ {"null"}
  BY <1>1
<1> HIDE DEF T, hints
<1>7. /\ \A i, j \in ListedIn(answer) : answer[i].text = answer[j].text => i = j
      /\ \A i \in DOMAIN answer \ ListedIn(answer) :
           \E j \in ListedIn(answer) : answer[j].text = answer[i].text /\ answer[j].category \in Usable
      /\ {answer[i].text : i \in ListedIn(answer)} = T(n)
  BY <1>5 DEF IsListing
<1>q. QED
  BY <1>6, <1>7, Zenon DEF SuggestionsUsable, ListedIn, Usable, hints

\* The device that opens is the one that the name means, the stream on it serves the
\* routes and is in a format that the device offers, and the list suggests only
\* devices that can be used.
THEOREM DevicesAreServed == DecisionSpec => []DevicesServe
<1>1. DecisionInv => DevicesServe
  BY DeviceIsAsNamed, InputServes, OutputIsAsOffered, SuggestionsAreUsable DEF DevicesServe
<1>q. QED
  BY <1>1, DecisionInvariance, PTL

-----------------------------------------------------------------------------
(* Commands: however one is sent it means the same, and it reaches only    *)
(* what it names.                                                          *)

\* What the messages have in common: a required field has one name and is no flag,
\* defaults are given for fields of the message only, and only two commands can do
\* without parameters.
IsMessage(command) ==
  LET s == MessageOf[command]
  IN  /\ \A f \in DOMAIN s.required : /\ s.required[f] \in {"str", "num", "uint", "bool"}
                                      /\ f \notin DOMAIN s.alias
      /\ DOMAIN Defaults(command) \subseteq DOMAIN s.required \cup DOMAIN s.optional
      /\ DOMAIN s.required = {} => command \in {"fadeall", "stop"}

\* So is every message.
LEMMA Messages ==
  ASSUME NEW command \in DOMAIN MessageOf
  PROVE  IsMessage(command)
<1>1. CASE command = "play"
  BY <1>1 DEF IsMessage, MessageOf, PlayMessage, Schema, Defaults, None
<1>2. CASE command = "voice_stop"
  BY <1>2 DEF IsMessage, MessageOf, VoiceStopMessage, Schema, Defaults, None
<1>3. CASE command = "voice_fade_out"
  BY <1>3 DEF IsMessage, MessageOf, VoiceFadeOutMessage, Schema, Defaults, None
<1>4. CASE command = "fadeall"
  BY <1>4 DEF IsMessage, MessageOf, FadeAllMessage, Schema, Defaults, None
<1>5. CASE command = "voice_volume"
  BY <1>5 DEF IsMessage, MessageOf, VoiceVolumeMessage, Schema, Defaults, None
<1>6. CASE command = "precache"
  BY <1>6 DEF IsMessage, MessageOf, FileMessage, Schema, Defaults, None
<1>7. CASE command = "cache_invalidate"
  BY <1>7 DEF IsMessage, MessageOf, FileMessage, Schema, Defaults, None
<1>8. CASE command = "input_volume"
  BY <1>8 DEF IsMessage, MessageOf, InputVolumeMessage, Schema, Defaults, None
<1>9. CASE command = "input_mute"
  BY <1>9 DEF IsMessage, MessageOf, InputMuteMessage, Schema, Defaults, None
<1>10. CASE command = "seek"
  BY <1>10 DEF IsMessage, MessageOf, SeekMessage, Schema, Defaults, None, SampleSelector
<1>11. CASE command = "speed"
  <2>1. MessageOf[command] = SpeedMessage
    BY <1>11 DEF MessageOf
  <2>2. Defaults(command) = [pitch_correction |-> <<"bool", FALSE>>]
    BY <1>11 DEF Defaults
  <2>3. "pitch_correction" \in DOMAIN SpeedMessage.optional
    BY DEF SpeedMessage, Schema, FillIn
  <2>4. DOMAIN SpeedMessage.required = {"speed"} /\ SpeedMessage.required["speed"] = "num"
        /\ SpeedMessage.alias = None
    BY DEF SpeedMessage, Schema
  <2>q. QED
    BY <2>1, <2>2, <2>3, <2>4 DEF IsMessage, None
<1>12. CASE command = "stop"
  BY <1>12 DEF IsMessage, MessageOf, StopMessage, Schema, Defaults, None, SampleSelector, FillIn
<1>13. CASE command = "volume"
  BY <1>13 DEF IsMessage, MessageOf, VolumeMessage, Schema, Defaults, None, SampleSelector
<1>q. QED
  BY <1>1, <1>2, <1>3, <1>4, <1>5, <1>6, <1>7, <1>8, <1>9, <1>10, <1>11, <1>12, <1>13 DEF MessageOf

\* A value of such a type is no null.
LEMMA NotNull ==
  ASSUME NEW v, NEW type \in {"str", "num", "uint", "bool", "flag", "map"}, OfType(v, type)
  PROVE  v # Null
<1>1. v[1] \in {"str", "num", "bool", "arr"}
  BY DEF OfType
<1>2. Null[1] = "null"
  BY DEF Null
<1>q. QED
  BY <1>1, <1>2

\* What decodes has every required field and none that its message has not.
LEMMA DecodedFields ==
  ASSUME NEW command \in DOMAIN MessageOf, NEW v, Decodes(v, MessageOf[command])
  PROVE  LET s == MessageOf[command]
         IN  /\ DOMAIN s.required \subseteq DOMAIN Decoded(v, s)
             /\ DOMAIN Decoded(v, s) \subseteq DOMAIN s.required \cup DOMAIN s.optional
<1> DEFINE s == MessageOf[command]
           known == DOMAIN s.required \cup DOMAIN s.optional
           keys == {k \in DOMAIN v[2] : FieldOf(s, k) \in known /\ v[2][k] # Null}
<1>1. DOMAIN Decoded(v, s) = {FieldOf(s, k) : k \in keys}
  BY DEF Decoded
<1>2. ASSUME NEW f \in DOMAIN s.required PROVE f \in keys /\ FieldOf(s, f) = f
  <2>1. s.required[f] \in {"str", "num", "uint", "bool"} /\ f \notin DOMAIN s.alias
    BY Messages DEF IsMessage
  <2>2. FieldOf(s, f) = f
    BY <2>1 DEF FieldOf
  <2>3. f \in DOMAIN v[2] /\ OfType(v[2][f], s.required[f])
    BY <2>2 DEF Decodes
  <2>4. v[2][f] # Null
    BY <2>1, <2>3, NotNull
  <2>q. QED
    BY <2>2, <2>3, <2>4
<1>q. QED
  BY <1>1, <1>2

\* A command has its name, and the fields it was given or defaults for.
LEMMA AudioCommandIs ==
  ASSUME NEW command, NEW args, NEW r, r = AudioCommand(command, args)
  PROVE  /\ r.command = command
         /\ DOMAIN r.args = DOMAIN args \cup DOMAIN Defaults(command)
         /\ command # "play" => r.args = FillIn(args, Defaults(command))
<1> DEFINE full == FillIn(args, Defaults(command))
<1>1. r.command = command
  BY DEF AudioCommand
<1>2. r.args = IF command = "play" THEN [full EXCEPT !["volume"] = <<"num", Clamp(full["volume"][2])>>]
               ELSE full
  BY DEF AudioCommand
<1>3. DOMAIN full = DOMAIN args \cup DOMAIN Defaults(command)
  BY DEF FillIn
<1> HIDE DEF full
<1>4. DOMAIN r.args = DOMAIN full
  BY <1>2
<1>q. QED
  BY <1>1, <1>2, <1>3, <1>4 DEF full

\* What the parser yields for a command.
IsParsed(r, command) ==
  \/ IsRejected(r) /\ r.why \in {"JsonError", "UnknownCommand", "MissingMessage",
                                 "InvalidParameter"}
  \/ /\ r.command = command /\ command \in DOMAIN MessageOf \cup Bare
     /\ command \in DOMAIN MessageOf =>
          LET s == MessageOf[command]
          IN  /\ DOMAIN s.required \subseteq DOMAIN r.args
              /\ DOMAIN r.args \subseteq DOMAIN s.required \cup DOMAIN s.optional
     /\ command \in Selecting => ValidInternalId(r.args)

\* A refusal is one, with its reason.
LEMMA RejectedIs ==
  ASSUME NEW why \in {"JsonError", "UnknownCommand", "MissingMessage", "InvalidParameter"},
         NEW command
  PROVE  IsRejected(Rejected(why)) /\ IsParsed(Rejected(why), command)
BY DEF IsParsed, IsRejected, Rejected

\* Parameters come to such an answer.
LEMMA WithMessageIs ==
  ASSUME NEW command \in DOMAIN MessageOf, NEW params
  PROVE  IsParsed(WithMessage(command, params), command)
<1> DEFINE s == MessageOf[command]
           args == Decoded(params, s)
           r == AudioCommand(command, args)
<1>1. CASE ~Decodes(params, s)
  <2>1. WithMessage(command, params) = Rejected("JsonError")
    BY <1>1 DEF WithMessage
  <2>q. QED
    BY <2>1, RejectedIs
<1>2. CASE /\ Decodes(params, s)
           /\ \/ command \in Selecting /\ ~ValidInternalId(args)
              \/ command = "speed" /\ args["speed"][2] = 0
  <2>1. WithMessage(command, params) = Rejected("InvalidParameter")
    BY <1>2 DEF WithMessage
  <2>q. QED
    BY <2>1, RejectedIs
<1>3. CASE /\ Decodes(params, s)
           /\ ~ (\/ command \in Selecting /\ ~ValidInternalId(args)
                 \/ command = "speed" /\ args["speed"][2] = 0)
  <2>1. WithMessage(command, params) = r
    BY <1>3 DEF WithMessage
  <2>2. /\ DOMAIN s.required \subseteq DOMAIN args
        /\ DOMAIN args \subseteq DOMAIN s.required \cup DOMAIN s.optional
    BY <1>3, DecodedFields
  <2>3. /\ r.command = command /\ DOMAIN r.args = DOMAIN args \cup DOMAIN Defaults(command)
        /\ command # "play" => r.args = FillIn(args, Defaults(command))
    BY AudioCommandIs
  <2>4. DOMAIN Defaults(command) \subseteq DOMAIN s.required \cup DOMAIN s.optional
    BY Messages DEF IsMessage
  <2>5. ASSUME command \in Selecting PROVE ValidInternalId(r.args)
    <3>1. command # "play" /\ "internal_id" \notin DOMAIN Defaults(command)
      BY <2>5 DEF Selecting, Defaults, None
    <3>2. r.args = FillIn(args, Defaults(command)) /\ ValidInternalId(args)
      BY <1>3, <2>3, <2>5, <3>1
    <3> HIDE DEF r, args
    <3>q. QED
      BY <3>1, <3>2 DEF ValidInternalId, FillIn
  <2> HIDE DEF r, args, s
  <2>q. QED
    BY <2>1, <2>2, <2>3, <2>4, <2>5 DEF IsParsed, s
<1>q. QED
  BY <1>1, <1>2, <1>3

\* How the parser goes on when it has the command's name and parameters.
Parse(command, given, params) ==
  IF command \in Bare THEN AudioCommand(command, None)
  ELSE IF command \notin DOMAIN MessageOf THEN Rejected("UnknownCommand")
  ELSE IF given THEN WithMessage(command, params)
  ELSE IF command = "fadeall" THEN AudioCommand(command, None)
  ELSE Rejected("MissingMessage")

\* So do they with any name.
LEMMA ParseIs ==
  ASSUME NEW command, NEW given \in BOOLEAN, NEW params
  PROVE  IsParsed(Parse(command, given, params), command)
<1>1. IsParsed(Rejected("UnknownCommand"), command) /\ IsParsed(Rejected("MissingMessage"), command)
  BY RejectedIs
<1>2. command \in DOMAIN MessageOf => IsParsed(WithMessage(command, params), command)
  BY WithMessageIs
<1>3. command \in Bare => /\ command \notin DOMAIN MessageOf
                          /\ IsParsed(AudioCommand(command, None), command)
  <2>1. ASSUME command \in Bare PROVE command \notin DOMAIN MessageOf /\ command \notin Selecting
    BY <2>1 DEF Bare, MessageOf, Selecting
  <2>q. QED
    BY <2>1, AudioCommandIs, Zenon DEF IsParsed
<1>4. command = "fadeall" => IsParsed(AudioCommand(command, None), command)
  <2> SUFFICES ASSUME command = "fadeall" PROVE IsParsed(AudioCommand("fadeall", None), "fadeall")
    OBVIOUS
  <2>1. "fadeall" \in DOMAIN MessageOf /\ "fadeall" \notin Selecting
    BY DEF MessageOf, Selecting
  <2>2. DOMAIN MessageOf["fadeall"].required = {} /\ DOMAIN None = {}
    BY DEF MessageOf, FadeAllMessage, Schema, None
  <2>3. IsMessage("fadeall")
    BY <2>1, Messages
  <2>4. /\ AudioCommand("fadeall", None).command = "fadeall"
        /\ DOMAIN AudioCommand("fadeall", None).args = DOMAIN None \cup DOMAIN Defaults("fadeall")
    BY AudioCommandIs
  <2>q. QED
    BY <2>1, <2>2, <2>3, <2>4 DEF IsParsed, IsMessage
<1>q. QED
  BY <1>1, <1>2, <1>3, <1>4, Zenon DEF Parse

\* Every payload comes to such an answer.
LEMMA ParsedIs ==
  ASSUME NEW v
  PROVE  \E command : IsParsed(ParseCommand(v), command)
<1> DEFINE command == CommandOf(v[2]["command"][2])
<1>1. ParseCommand(v) \in {Rejected("JsonError"), Parse(command, HasParams(v), GetParams(v))}
  BY Zenon DEF ParseCommand, Parse
<1>2. HasParams(v) \in BOOLEAN
  BY DEF HasParams
<1>3. IsParsed(Rejected("JsonError"), command)
  BY RejectedIs
<1>4. IsParsed(Parse(command, HasParams(v), GetParams(v)), command)
  BY <1>2, ParseIs
<1>q. QED
  BY <1>1, <1>3, <1>4

\* The macros of a use, and how they are merged one by one.
Given(names, j) == MacroFields(names[j], Macros)
MacroKeys(names) == UNION {DOMAIN Given(names, j) : j \in DOMAIN names}
MacroValues(names) == UNION {{Given(names, j)[f] : f \in DOMAIN Given(names, j)} : j \in DOMAIN names}
FieldSets(K, R) == UNION {[D -> R] : D \in SUBSET K}

IsMerging(g, names) ==
  g = [s \in SUBSET DOMAIN names |->
        IF s = {} THEN None ELSE FillIn(g[s \ {Max(s)}], Given(names, Max(s)))]

\* MacroParams is the value of such a function at all the names.
LEMMA MergingUnfolded ==
  ASSUME NEW names
  PROVE  MacroParams(names, Macros) = (CHOOSE g : IsMerging(g, names))[DOMAIN names]
BY DEF MacroParams, FoldLeft, MapThenFoldSet, IsMerging, Given

\* The fields of a macro are a function, without command, message and macro.
LEMMA GivenIs ==
  ASSUME NEW names, NEW j \in DOMAIN names
  PROVE  IsParameters(Given(names, j))
<1>1. IsParameters(None)
  BY DEF IsParameters, None
<1> DEFINE name == names[j]
<1>2. CASE name[1] = "str" /\ name[2] \in DOMAIN Macros /\ IsObject(Macros[name[2]])
  <2>1. Given(names, j) = Macros[name[2]][2]
    BY <1>2, Zenon DEF Given, MacroFields
  <2>q. QED
    BY <1>2, <2>1, CommandAssumption
<1>3. CASE ~(name[1] = "str" /\ name[2] \in DOMAIN Macros /\ IsObject(Macros[name[2]]))
  <2>1. Given(names, j) = None
    BY <1>3, Zenon DEF Given, MacroFields
  <2>q. QED
    BY <1>1, <2>1
<1>q. QED
  BY <1>2, <1>3

\* Filling in fields is a matter of which there are.
LEMMA FillInType ==
  ASSUME NEW K, NEW R, NEW f \in FieldSets(K, R), NEW g, DOMAIN g \subseteq K,
         \A k \in DOMAIN g : g[k] \in R
  PROVE  FillIn(f, g) \in FieldSets(K, R)
<1>1. PICK D \in SUBSET K : f \in [D -> R]
  BY DEF FieldSets
<1>2. D \cup DOMAIN g \in SUBSET K /\ DOMAIN f = D
  BY <1>1
<1>3. FillIn(f, g) \in [D \cup DOMAIN g -> R]
  BY <1>1, <1>2 DEF FillIn
<1>q. QED
  BY <1>2, <1>3 DEF FieldSets

\* The macros are merged one by one.
IsMacroByMacro(a, names) ==
  /\ a[0] = None
  /\ \A j \in 1 .. Len(names) : a[j] = FillIn(a[j - 1], Given(names, j))
  /\ MacroParams(names, Macros) = a[Len(names)]

\* So they are for every list of names.
LEMMA MacroByMacro ==
  ASSUME NEW names, IsSequence(names)
  PROVE  \E a : IsMacroByMacro(a, names)
<1> DEFINE n == Len(names)
           V == FieldSets(MacroKeys(names), MacroValues(names))
           st == [q \in (1 .. n) \X V |-> FillIn(q[2], Given(names, q[1]))]
<1>1. n \in Nat /\ DOMAIN names = 1 .. n
  BY SequenceDomain
<1>2. st \in [(1 .. n) \X V -> V]
  <2>1. ASSUME NEW j \in 1 .. n
        PROVE  /\ DOMAIN Given(names, j) \subseteq MacroKeys(names)
               /\ \A f \in DOMAIN Given(names, j) : Given(names, j)[f] \in MacroValues(names)
    <3>1. j \in DOMAIN names
      BY <1>1
    <3>2. DOMAIN Given(names, j) \subseteq MacroKeys(names)
      BY <3>1 DEF MacroKeys
    <3>3. \A f \in DOMAIN Given(names, j) : Given(names, j)[f] \in MacroValues(names)
      BY <3>1 DEF MacroValues
    <3>q. QED
      BY <3>2, <3>3
  <2>2. \A q \in (1 .. n) \X V : FillIn(q[2], Given(names, q[1])) \in V
    BY <2>1, FillInType
  <2>q. QED
    BY <2>2
<1>3. \A j \in 1 .. n, v \in V : st[<<j, v>>] = FillIn(v, Given(names, j))
  OBVIOUS
<1>4. None \in V
  BY DEF None, FieldSets
<1> HIDE DEF n, st, V
<1>5. PICK h \in [SUBSET (1 .. n) -> V] : Folds(h, st, None, n)
  BY <1>1, <1>2, <1>4, FoldExists
<1>6. IsMerging(h, names)
  <2>1. ASSUME NEW s \in SUBSET (1 .. n), s # {}
        PROVE  h[s] = FillIn(h[s \ {Max(s)}], Given(names, Max(s)))
    <3>1. Max(s) \in s /\ h[s] = st[<<Max(s), h[s \ {Max(s)}]>>]
      BY <1>5, <2>1 DEF Folds
    <3>2. h[s \ {Max(s)}] \in V /\ Max(s) \in 1 .. n
      BY <1>5, <3>1
    <3>q. QED
      BY <1>3, <3>1, <3>2
  <2>2. h[{}] = None
    BY <1>5 DEF Folds
  <2>3. h = [s \in SUBSET (1 .. n) |-> h[s]]
    BY <1>5
  <2>4. \A s \in SUBSET (1 .. n) :
          h[s] = IF s = {} THEN None ELSE FillIn(h[s \ {Max(s)}], Given(names, Max(s)))
    BY <2>1, <2>2
  <2>q. QED
    BY <1>1, <2>3, <2>4 DEF IsMerging
<1> DEFINE g == CHOOSE g : IsMerging(g, names)
           a == [j \in 0 .. n |-> g[1 .. j]]
<1>7. IsMerging(g, names)
  BY <1>6
<1>8. MacroParams(names, Macros) = g[1 .. n]
  BY <1>1, MergingUnfolded
<1> HIDE DEF g
<1>9. a[0] = None
  <2>1. 1 .. 0 = {}
    OBVIOUS
  <2>2. g[{}] = None
    BY <1>7 DEF IsMerging
  <2>q. QED
    BY <1>1, <2>1, <2>2
<1>10. ASSUME NEW j \in 1 .. n PROVE a[j] = FillIn(a[j - 1], Given(names, j))
  <2>1. /\ 1 .. j \in SUBSET (1 .. n) /\ 1 .. j # {}
        /\ Max(1 .. j) = j /\ (1 .. j) \ {j} = 1 .. (j - 1)
    BY <1>1, FirstPlaces
  <2>2. g[1 .. j] = FillIn(g[(1 .. j) \ {Max(1 .. j)}], Given(names, Max(1 .. j)))
    BY <1>1, <1>7, <2>1 DEF IsMerging
  <2>3. a[j] = g[1 .. j] /\ a[j - 1] = g[1 .. (j - 1)]
    BY <1>1
  <2>q. QED
    BY <2>1, <2>2, <2>3
<1>11. a[n] = g[1 .. n]
  BY <1>1
<1> HIDE DEF a
<1>12. IsMacroByMacro(a, names)
  BY <1>8, <1>9, <1>10, <1>11 DEF IsMacroByMacro, n
<1>q. QED
  BY <1>12

\* The fields of the first k macros: those of any of them, with the value that the
\* first of them to have the field gives it.
IsFirstOf(p, names, k) ==
  /\ p = [f \in DOMAIN p |-> p[f]]
  /\ \A f : f \in DOMAIN p <=> \E j \in 1 .. k : f \in DOMAIN Given(names, j)
  /\ \A f \in DOMAIN p :
       \E i \in 1 .. k :
         /\ f \in DOMAIN Given(names, i) /\ p[f] = Given(names, i)[f]
         /\ \A j \in 1 .. k : f \in DOMAIN Given(names, j) => i <= j

\* One macro more fills in what the first ones have not.
LEMMA OneMacroMore ==
  ASSUME NEW names, NEW n \in Nat, NEW k \in 1 .. n, NEW p, IsFirstOf(p, names, k - 1)
  PROVE  IsFirstOf(FillIn(p, Given(names, k)), names, k)
<1> DEFINE more == FillIn(p, Given(names, k))
<1>1. /\ more = [f \in DOMAIN more |-> more[f]]
      /\ \A f : f \in DOMAIN more <=> f \in DOMAIN p \/ f \in DOMAIN Given(names, k)
      /\ \A f \in DOMAIN more : more[f] = IF f \in DOMAIN p THEN p[f] ELSE Given(names, k)[f]
  BY DEF FillIn
<1> HIDE DEF more
<1>2. \A j : j \in 1 .. k <=> j \in 1 .. (k - 1) \/ j = k
  OBVIOUS
<1>3. \A f : f \in DOMAIN more <=> \E j \in 1 .. k : f \in DOMAIN Given(names, j)
  BY <1>1, <1>2 DEF IsFirstOf
<1>4. ASSUME NEW f \in DOMAIN more
      PROVE  \E i \in 1 .. k :
               /\ f \in DOMAIN Given(names, i) /\ more[f] = Given(names, i)[f]
               /\ \A j \in 1 .. k : f \in DOMAIN Given(names, j) => i <= j
  <2>1. CASE f \in DOMAIN p
    <3>1. PICK i \in 1 .. (k - 1) :
            /\ f \in DOMAIN Given(names, i) /\ p[f] = Given(names, i)[f]
            /\ \A j \in 1 .. (k - 1) : f \in DOMAIN Given(names, j) => i <= j
      BY <2>1 DEF IsFirstOf
    <3>2. i \in 1 .. k /\ i <= k
      OBVIOUS
    <3>q. QED
      BY <1>1, <1>2, <2>1, <3>1, <3>2
  <2>2. CASE f \notin DOMAIN p
    <3>1. f \in DOMAIN Given(names, k) /\ more[f] = Given(names, k)[f]
      BY <1>1, <2>2
    <3>2. \A j \in 1 .. (k - 1) : f \notin DOMAIN Given(names, j)
      BY <2>2 DEF IsFirstOf
    <3>3. k \in 1 .. k /\ k <= k
      OBVIOUS
    <3>q. QED
      BY <1>2, <3>1, <3>2, <3>3
  <2>q. QED
    BY <2>1, <2>2
<1>q. QED
  BY <1>1, <1>3, <1>4 DEF IsFirstOf, more

\* So the parameters of macros are those of the first one that gives each.
LEMMA FirstMacroDecides ==
  ASSUME NEW names, IsSequence(names)
  PROVE  IsFirstOf(MacroParams(names, Macros), names, Len(names))
<1> DEFINE n == Len(names)
<1>1. n \in Nat
  BY SequenceDomain
<1>2. PICK a : IsMacroByMacro(a, names)
  BY MacroByMacro
<1> DEFINE S == {k \in 0 .. n : IsFirstOf(a[k], names, k)}
<1>3. 0 \in S
  <2>1. IsFirstOf(None, names, 0)
    BY DEF IsFirstOf, None
  <2>q. QED
    BY <1>1, <1>2, <2>1 DEF IsMacroByMacro
<1>4. ASSUME NEW k \in 1 .. n, k - 1 \in S PROVE k \in S
  <2>1. IsFirstOf(a[k - 1], names, k - 1) /\ k \in 0 .. n
    BY <1>1, <1>4
  <2>2. a[k] = FillIn(a[k - 1], Given(names, k))
    BY <1>2 DEF IsMacroByMacro
  <2>q. QED
    BY <1>1, <2>1, <2>2, OneMacroMore
<1> HIDE DEF S
<1>5. \A k \in 0 .. n : k \in S
  BY <1>1, <1>3, <1>4, AllUpTo
<1>6. IsFirstOf(a[n], names, n)
  <2>1. n \in S
    BY <1>1, <1>5
  <2>q. QED
    BY <2>1 DEF S
<1>q. QED
  BY <1>2, <1>6 DEF IsMacroByMacro

IsFields(f) == f = [x \in DOMAIN f |-> f[x]]

\* Fields that others fill in are fields, their own and the others.
LEMMA FillInFields ==
  ASSUME NEW f, NEW g
  PROVE  IsFields(FillIn(f, g)) /\ DOMAIN FillIn(f, g) = DOMAIN f \cup DOMAIN g
BY DEF FillIn, IsFields

\* Nothing fills in nothing.
LEMMA FillInNothing ==
  ASSUME NEW f, IsFields(f)
  PROVE  FillIn(f, None) = f
<1>1. FillIn(f, None) = [x \in DOMAIN f |-> f[x]]
  BY DEF FillIn, None
<1>q. QED
  BY <1>1, Zenon DEF IsFields

\* It does not matter which are filled in first.
LEMMA FillInAssociates ==
  ASSUME NEW f, NEW g, NEW h
  PROVE  FillIn(FillIn(f, g), h) = FillIn(f, FillIn(g, h))
BY DEF FillIn

\* The fields that macros offer to a command.
Offered(use) == IF use = Null THEN None ELSE MacroParams(MacroNames(use), Macros)

\* They are parameters.
LEMMA OfferedIs ==
  ASSUME NEW use \in MacroUses
  PROVE  /\ IsParameters(Offered(use))
         /\ use # Null => IsSequence(MacroNames(use))
<1>1. IsParameters(None)
  BY DEF IsParameters, None
<1>2. ASSUME use # Null PROVE IsSequence(MacroNames(use))
  <2>1. CASE use[1] = "str"
    <3>1. MacroNames(use) = <<use>>
      BY <2>1 DEF MacroNames
    <3>2. IsSequence(<<use>>)
      BY DEF IsSequence, Range
    <3>q. QED
      BY <3>1, <3>2
  <2>2. CASE use[1] = "arr"
    <3>1. MacroNames(use) = use[2]
      BY <2>2 DEF MacroNames
    <3>q. QED
      BY <2>2, <3>1, CommandAssumption
  <2>3. CASE use[1] # "str" /\ use[1] # "arr"
    <3>1. MacroNames(use) = << >>
      BY <2>3 DEF MacroNames
    <3>2. IsSequence(<< >>)
      BY DEF IsSequence, Range
    <3>q. QED
      BY <3>1, <3>2
  <2>q. QED
    BY <2>1, <2>2, <2>3
<1>3. ASSUME use # Null PROVE IsParameters(Offered(use))
  <2> DEFINE names == MacroNames(use)
             p == Offered(use)
  <2>1. p = MacroParams(names, Macros)
    BY <1>3 DEF Offered
  <2>2. IsSequence(names)
    BY <1>2, <1>3
  <2> HIDE DEF p, names
  <2>3. IsFirstOf(p, names, Len(names)) /\ DOMAIN names = 1 .. Len(names)
    BY <2>1, <2>2, FirstMacroDecides, SequenceDomain
  <2>4. \A j \in 1 .. Len(names) : {"command", "message", "macro"} \cap DOMAIN Given(names, j) = {}
    BY <2>3, GivenIs DEF IsParameters
  <2>5. {"command", "message", "macro"} \cap DOMAIN p = {}
    BY <2>3, <2>4 DEF IsFirstOf
  <2>6. p = [f \in DOMAIN p |-> p[f]]
    BY <2>3 DEF IsFirstOf
  <2>q. QED
    BY <2>5, <2>6 DEF IsParameters, p
<1>q. QED
  BY <1>1, <1>2, <1>3 DEF Offered

\* A macro beside flattened parameters fills in what they leave out.
LEMMA FlattenedExpands ==
  ASSUME NEW command, NEW args, IsParameters(args), NEW use
  PROVE  ExpandMacros(Flattened(command, args, use), Macros)
           = Flattened(command, FillIn(args, Offered(use)), Null)
<1> DEFINE head == [command |-> Text(command)]
           own == FillIn(head, args)
           v == Flattened(command, args, use)
<1>1. IsFields(own) /\ DOMAIN own = {"command"} \cup DOMAIN args
  <2>1. DOMAIN head = {"command"}
    OBVIOUS
  <2> HIDE DEF head
  <2>q. QED
    BY <2>1, FillInFields
<1>2. "macro" \notin DOMAIN own /\ "message" \notin DOMAIN own
  BY <1>1 DEF IsParameters
<1>3. v = Obj(FillIn(own, Using(use)))
  BY DEF Flattened
<1>4. Flattened(command, FillIn(args, Offered(use)), Null) = Obj(FillIn(own, Offered(use)))
  <2>1. Using(Null) = None
    BY DEF Using
  <2>2. FillIn(head, FillIn(args, Offered(use))) = FillIn(own, Offered(use))
    <3> HIDE DEF head
    <3>q. QED
      BY FillInAssociates
  <2>3. FillIn(FillIn(own, Offered(use)), None) = FillIn(own, Offered(use))
    <3> HIDE DEF own
    <3>q. QED
      BY FillInFields, FillInNothing
  <2>4. Flattened(command, FillIn(args, Offered(use)), Null)
          = Obj(FillIn(FillIn(head, FillIn(args, Offered(use))), Using(Null)))
    BY DEF Flattened
  <2>q. QED
    BY <2>1, <2>2, <2>3, <2>4
<1> HIDE DEF own
<1>5. CASE use = Null
  <2>1. v = Obj(own)
    BY <1>1, <1>3, <1>5, FillInNothing DEF Using
  <2>2. v[2] = own
    BY <2>1 DEF Obj
  <2>3. ExpandMacros(v, Macros) = v
    BY <1>2, <2>2, Zenon DEF ExpandMacros
  <2>4. FillIn(own, Offered(use)) = own
    BY <1>1, <1>5, FillInNothing DEF Offered
  <2>q. QED
    BY <1>4, <2>1, <2>3, <2>4
<1>6. CASE use # Null
  <2> DEFINE all == FillIn(own, [macro |-> use])
             fields == Restrict(all, DOMAIN all \ {"macro"})
  <2>1. v[1] = "obj" /\ v[2] = all
    BY <1>3, <1>6 DEF Obj, Using
  <2>2. /\ DOMAIN all = DOMAIN own \cup {"macro"} /\ all["macro"] = use
        /\ \A f \in DOMAIN own : all[f] = own[f]
    BY <1>2 DEF FillIn
  <2>3. fields = own
    <3>1. DOMAIN all \ {"macro"} = DOMAIN own
      BY <1>2, <2>2
    <3>2. fields = [f \in DOMAIN own |-> all[f]]
      BY <3>1 DEF Restrict
    <3>q. QED
      BY <1>1, <2>2, <3>2 DEF IsFields
  <2>4. ExpandMacros(v, Macros)
          = IF ~IsObject(v) \/ "macro" \notin DOMAIN v[2] THEN v
            ELSE IF "message" \in DOMAIN Restrict(v[2], DOMAIN v[2] \ {"macro"})
                      /\ IsObject(Restrict(v[2], DOMAIN v[2] \ {"macro"})["message"])
                 THEN Obj([Restrict(v[2], DOMAIN v[2] \ {"macro"}) EXCEPT
                             !["message"] = Obj(FillIn(@[2], MacroParams(MacroNames(v[2]["macro"]), Macros)))])
                 ELSE Obj(FillIn(Restrict(v[2], DOMAIN v[2] \ {"macro"}),
                                 MacroParams(MacroNames(v[2]["macro"]), Macros)))
    BY Zenon DEF ExpandMacros
  <2>5. IsObject(v) /\ "macro" \in DOMAIN v[2]
    BY <2>1, <2>2 DEF IsObject
  <2>6. /\ Restrict(v[2], DOMAIN v[2] \ {"macro"}) = own
        /\ MacroParams(MacroNames(v[2]["macro"]), Macros) = Offered(use)
    BY <1>6, <2>1, <2>2, <2>3 DEF Offered
  <2>7. ExpandMacros(v, Macros) = Obj(FillIn(own, Offered(use)))
    <3> HIDE DEF v, all, fields
    <3>q. QED
      BY <1>2, <2>4, <2>5, <2>6, Zenon
  <2>q. QED
    BY <1>4, <2>7
<1>q. QED
  BY <1>5, <1>6

\* And so does one beside a message.
LEMMA NestedExpands ==
  ASSUME NEW command, NEW args, IsParameters(args), NEW use
  PROVE  ExpandMacros(Nested(command, args, use), Macros)
           = Nested(command, FillIn(args, Offered(use)), Null)
<1> DEFINE own(p) == [command |-> Text(command), message |-> Obj(p)]
           v == Nested(command, args, use)
<1>1. \A p : IsFields(own(p)) /\ DOMAIN own(p) = {"command", "message"} /\ own(p)["message"] = Obj(p)
  BY DEF IsFields
<1>2. v = Obj(FillIn(own(args), Using(use)))
  BY DEF Nested
<1>3. \A p : Nested(command, p, Null) = Obj(own(p))
  <2> SUFFICES ASSUME NEW p PROVE Nested(command, p, Null) = Obj(own(p))
    OBVIOUS
  <2>1. Nested(command, p, Null) = Obj(FillIn(own(p), None))
    BY DEF Nested, Using
  <2>2. FillIn(own(p), None) = own(p)
    BY <1>1, FillInNothing
  <2>q. QED
    BY <2>1, <2>2
<1>4. CASE use = Null
  <2>1. v = Obj(own(args)) /\ FillIn(args, Offered(use)) = args
    BY <1>3, <1>4, FillInNothing DEF Offered, IsParameters, IsFields
  <2>2. ExpandMacros(v, Macros) = v
    <3>1. v[2] = own(args)
      BY <2>1 DEF Obj
    <3>2. "macro" \notin DOMAIN v[2]
      BY <1>1, <3>1
    <3>q. QED
      BY <3>2, Zenon DEF ExpandMacros
  <2>q. QED
    BY <1>3, <2>1, <2>2
<1>5. CASE use # Null
  <2> DEFINE all == FillIn(own(args), [macro |-> use])
             params == MacroParams(MacroNames(use), Macros)
  <2>1. v[1] = "obj" /\ v[2] = all
    BY <1>2, <1>5 DEF Obj, Using
  <2>2. /\ DOMAIN all = {"command", "message", "macro"} /\ all["macro"] = use
        /\ all["command"] = Text(command) /\ all["message"] = Obj(args)
    BY DEF FillIn
  <2>3. Restrict(all, DOMAIN all \ {"macro"}) = own(args)
    <3>1. DOMAIN all \ {"macro"} = {"command", "message"}
      BY <2>2
    <3>2. Restrict(all, DOMAIN all \ {"macro"}) = [f \in {"command", "message"} |-> all[f]]
      BY <3>1 DEF Restrict
    <3>q. QED
      BY <2>2, <3>2
  <2>4. ExpandMacros(v, Macros)
          = IF ~IsObject(v) \/ "macro" \notin DOMAIN v[2] THEN v
            ELSE IF "message" \in DOMAIN Restrict(v[2], DOMAIN v[2] \ {"macro"})
                      /\ IsObject(Restrict(v[2], DOMAIN v[2] \ {"macro"})["message"])
                 THEN Obj([Restrict(v[2], DOMAIN v[2] \ {"macro"}) EXCEPT
                             !["message"] = Obj(FillIn(@[2], MacroParams(MacroNames(v[2]["macro"]), Macros)))])
                 ELSE Obj(FillIn(Restrict(v[2], DOMAIN v[2] \ {"macro"}),
                                 MacroParams(MacroNames(v[2]["macro"]), Macros)))
    BY Zenon DEF ExpandMacros
  <2>5. /\ IsObject(v) /\ "macro" \in DOMAIN v[2] /\ v[2]["macro"] = use
        /\ Restrict(v[2], DOMAIN v[2] \ {"macro"}) = own(args)
    BY <2>1, <2>2, <2>3 DEF IsObject
  <2>6. /\ "message" \in DOMAIN own(args) /\ IsObject(own(args)["message"])
        /\ own(args)["message"][2] = args
    BY DEF IsObject, Obj
  <2>7. ExpandMacros(v, Macros) = Obj([own(args) EXCEPT !["message"] = Obj(FillIn(@[2], params))])
    <3> HIDE DEF v, all, own
    <3>q. QED
      BY <2>4, <2>5, <2>6, Zenon
  <2>8. [own(args) EXCEPT !["message"] = Obj(FillIn(@[2], params))]
          = [own(args) EXCEPT !["message"] = Obj(FillIn(args, params))]
    BY <2>6
  <2>9. [own(args) EXCEPT !["message"] = Obj(FillIn(args, params))] = own(FillIn(args, params))
    OBVIOUS
  <2>10. Offered(use) = params
    BY <1>5 DEF Offered
  <2>11. Nested(command, FillIn(args, Offered(use)), Null) = Obj(own(FillIn(args, Offered(use))))
    BY <1>3
  <2> HIDE DEF v, all, own, params
  <2>q. QED
    BY <2>7, <2>8, <2>9, <2>10, <2>11, Zenon DEF v
<1>q. QED
  BY <1>4, <1>5

\* Parameters that parameters fill in are parameters.
LEMMA FilledParameters ==
  ASSUME NEW p, IsParameters(p), NEW q, IsParameters(q)
  PROVE  IsParameters(FillIn(p, q))
<1>1. IsFields(FillIn(p, q)) /\ DOMAIN FillIn(p, q) = DOMAIN p \cup DOMAIN q
  BY FillInFields
<1>2. {"command", "message", "macro"} \cap DOMAIN FillIn(p, q) = {}
  BY <1>1 DEF IsParameters
<1>q. QED
  BY <1>1, <1>2, Zenon DEF IsParameters, IsFields

\* Of flattened parameters it has some or none.
LEMMA FlattenedParses ==
  ASSUME NEW command, NEW p, IsParameters(p)
  PROVE  ParseCommand(Flattened(command, p, Null)) = Parse(CommandOf(command), DOMAIN p # {}, Obj(p))
<1> DEFINE head == [command |-> Text(command)]
           all == FillIn(head, p)
           v == Flattened(command, p, Null)
<1>1. DOMAIN head = {"command"} /\ head["command"] = Text(command)
  OBVIOUS
<1>2. v = Obj(all)
  <2>1. Using(Null) = None
    BY DEF Using
  <2>2. FillIn(all, None) = all
    <3> HIDE DEF head
    <3>q. QED
      BY FillInFields, FillInNothing
  <2>q. QED
    BY <2>1, <2>2 DEF Flattened
<1> HIDE DEF head
<1>3. /\ DOMAIN all = {"command"} \cup DOMAIN p /\ all["command"] = Text(command)
      /\ \A f \in DOMAIN p : all[f] = p[f]
  <2>1. "command" \notin DOMAIN p
    BY DEF IsParameters
  <2>q. QED
    BY <1>1, <2>1 DEF FillIn
<1> HIDE DEF all
<1>4. v[1] = "obj" /\ v[2] = all
  BY <1>2 DEF Obj
<1> HIDE DEF v
<1>5. IsMqttCommand(v) /\ CommandOf(v[2]["command"][2]) = CommandOf(command)
  BY <1>3, <1>4 DEF IsMqttCommand, IsObject, Text
<1>6. "message" \notin DOMAIN all /\ "command" \notin DOMAIN p /\ "message" \notin DOMAIN p
  BY <1>3 DEF IsParameters
<1>7. Message(v) = Null
  BY <1>4, <1>6 DEF Message
<1>8. Params(v) = p
  <2>1. DOMAIN all \ {"command", "message"} = DOMAIN p
    BY <1>3, <1>6
  <2>2. Params(v) = [f \in DOMAIN p |-> all[f]]
    BY <1>4, <2>1 DEF Params, Restrict
  <2>3. [f \in DOMAIN p |-> all[f]] = [f \in DOMAIN p |-> p[f]]
    BY <1>3
  <2>q. QED
    BY <2>2, <2>3, Zenon DEF IsParameters
<1>9. HasParams(v) = (DOMAIN p # {}) /\ GetParams(v) = Obj(p)
  BY <1>7, <1>8 DEF HasParams, GetParams
<1>q. QED
  BY <1>5, <1>9, Zenon DEF ParseCommand, Parse, v

\* Nested ones are there.
LEMMA NestedParses ==
  ASSUME NEW command, NEW p
  PROVE  ParseCommand(Nested(command, p, Null)) = Parse(CommandOf(command), TRUE, Obj(p))
<1> DEFINE own == [command |-> Text(command), message |-> Obj(p)]
           v == Nested(command, p, Null)
<1>1. IsFields(own) /\ DOMAIN own = {"command", "message"}
      /\ own["command"] = Text(command) /\ own["message"] = Obj(p)
  BY DEF IsFields
<1>2. v = Obj(own)
  <2>1. v = Obj(FillIn(own, None))
    BY DEF Nested, Using
  <2> HIDE DEF own, v
  <2>q. QED
    BY <1>1, <2>1, FillInNothing
<1> HIDE DEF own
<1>3. v[1] = "obj" /\ v[2] = own
  BY <1>2 DEF Obj
<1> HIDE DEF v
<1>4. IsMqttCommand(v) /\ CommandOf(v[2]["command"][2]) = CommandOf(command)
  BY <1>1, <1>3 DEF IsMqttCommand, IsObject, Text
<1>5. Message(v) = Obj(p)
  BY <1>1, <1>3 DEF Message
<1>6. Obj(p) # Null
  BY DEF Obj, Null
<1>7. HasParams(v) /\ GetParams(v) = Obj(p)
  BY <1>5, <1>6 DEF HasParams, GetParams
<1>q. QED
  BY <1>4, <1>7, Zenon DEF ParseCommand, Parse, v

\* What a command in text is about and what it comes to.
LEMMA TextAnswered ==
  ASSUME DecisionInv, Answered("text")
  PROVE  /\ ask.use \in MacroUses /\ IsParameters(ask.args)
         /\ IsParameters(FillIn(ask.args, Offered(ask.use)))
         /\ answer = ParseCommand(Flattened(ask.command, FillIn(ask.args, Offered(ask.use)), Null))
<1>1. AskText /\ answer = Received(Flattened(ask.command, ask.args, ask.use), Macros)
  BY Zenon DEF DecisionInv, Answered
<1>2. PICK command \in DOMAIN Bodies, use \in MacroUses :
        \E args \in Bodies[command] \cup MacroBodies[command] :
          ask = [kind |-> "text", command |-> command, args |-> args, use |-> use]
  BY <1>1 DEF AskText
<1>3. PICK args \in Bodies[command] \cup MacroBodies[command] :
        ask = [kind |-> "text", command |-> command, args |-> args, use |-> use]
  BY <1>2
<1>4. ask.use \in MacroUses /\ ask.args = args
  BY <1>3
<1>5. IsParameters(ask.args)
  BY <1>4, CommandAssumption
<1>6. IsParameters(FillIn(ask.args, Offered(ask.use)))
  BY <1>4, <1>5, OfferedIs, FilledParameters
<1>7. answer = ParseCommand(ExpandMacros(Flattened(ask.command, ask.args, ask.use), Macros))
  BY <1>1 DEF Received
<1>q. QED
  BY <1>4, <1>5, <1>6, <1>7, FlattenedExpands

\* A message of no fields decodes, as a fadeall, to no fields.
LEMMA BareFadeAll ==
  ASSUME NEW p, IsParameters(p), DOMAIN p = {}
  PROVE  WithMessage("fadeall", Obj(p)) = AudioCommand("fadeall", None)
<1> DEFINE s == MessageOf["fadeall"]
<1>1. s = FadeAllMessage /\ DOMAIN s.required = {}
  BY DEF MessageOf, FadeAllMessage, Schema, None
<1>2. Obj(p)[1] = "obj" /\ Obj(p)[2] = p
  BY DEF Obj
<1> HIDE DEF s
<1>3. Decodes(Obj(p), s)
  BY <1>1, <1>2 DEF Decodes, IsObject
<1>4. Decoded(Obj(p), s) = None
  <2>1. DOMAIN Decoded(Obj(p), s) = {}
    BY <1>2 DEF Decoded
  <2>2. IsFields(Decoded(Obj(p), s))
    BY DEF Decoded, IsFields
  <2>q. QED
    BY <2>1, <2>2 DEF IsFields, None
<1>5. "fadeall" \notin Selecting
  BY DEF Selecting
<1>q. QED
  BY <1>3, <1>4, <1>5 DEF WithMessage, s

\* Without parameters, no command but a fadeall is let through with a message that
\* is not without.
LEMMA EmptyRefused ==
  ASSUME NEW command \in DOMAIN MessageOf, command # "fadeall", NEW p, DOMAIN p = {}
  PROVE  Refuses(WithMessage(command, Obj(p)))
<1> DEFINE s == MessageOf[command]
           args == Decoded(Obj(p), s)
           r == WithMessage(command, Obj(p))
<1>1. Obj(p)[2] = p
  BY DEF Obj
<1>2. CASE DOMAIN s.required # {}
  <2>1. ~Decodes(Obj(p), s)
    BY <1>1, <1>2 DEF Decodes
  <2>2. r = Rejected("JsonError")
    BY <2>1 DEF WithMessage
  <2>q. QED
    BY <2>2 DEF Refuses, IsRejected, Rejected
<1>3. CASE DOMAIN s.required = {}
  <2>1. command = "stop"
    BY <1>3, Messages DEF IsMessage
  <2>2. r \in {Rejected("JsonError"), Rejected("InvalidParameter"), AudioCommand("stop", args)}
    BY <2>1, Zenon DEF WithMessage
  <2>3. DOMAIN args = {}
    BY <1>1 DEF Decoded
  <2>4. AudioCommand("stop", args).command = "stop" /\ DOMAIN AudioCommand("stop", args).args = {}
    <3>1. DOMAIN Defaults("stop") = {}
      BY DEF Defaults, None
    <3> HIDE DEF args
    <3>q. QED
      BY <2>3, <3>1, AudioCommandIs
  <2>5. Refuses(AudioCommand("stop", args))
    BY <2>4 DEF Refuses, Criteria, Selecting
  <2>6. Refuses(Rejected("JsonError")) /\ Refuses(Rejected("InvalidParameter"))
    BY DEF Refuses, IsRejected, Rejected
  <2>q. QED
    BY <2>2, <2>5, <2>6
<1>q. QED
  BY <1>2, <1>3

\* The flattened and the nested format come to the same command, or to none.
LEMMA FormatsDoAgree == DecisionInv => FormatsAgree
<1> SUFFICES ASSUME DecisionInv, Answered("text") PROVE FormatsAgree
  BY DEF FormatsAgree
<1> DEFINE p == FillIn(ask.args, Offered(ask.use))
           command == CommandOf(ask.command)
           nested == Received(Nested(ask.command, ask.args, ask.use), Macros)
<1>1. /\ ask.use \in MacroUses /\ IsParameters(ask.args) /\ IsParameters(p)
      /\ answer = ParseCommand(Flattened(ask.command, p, Null))
  BY TextAnswered
<1>2. answer = Parse(command, DOMAIN p # {}, Obj(p))
  BY <1>1, FlattenedParses
<1>3. nested = Parse(command, TRUE, Obj(p))
  <2>1. nested = ParseCommand(Nested(ask.command, p, Null))
    BY <1>1, NestedExpands DEF Received
  <2>q. QED
    BY <2>1, NestedParses
<1> HIDE DEF p, command, nested
<1>4. CASE command \in Bare \/ command \notin DOMAIN MessageOf \/ DOMAIN p # {}
  <2>1. answer = nested
    BY <1>2, <1>3, <1>4, Zenon DEF Parse
  <2>q. QED
    BY <2>1 DEF FormatsAgree, nested
<1>5. CASE command \notin Bare /\ command \in DOMAIN MessageOf /\ DOMAIN p = {}
  <2>1. nested = WithMessage(command, Obj(p))
    BY <1>3, <1>5, Zenon DEF Parse
  <2>2. CASE command = "fadeall"
    <3>1. answer = AudioCommand("fadeall", None)
      BY <1>2, <1>5, <2>2 DEF Parse
    <3>2. answer = nested
      BY <1>1, <1>5, <2>1, <2>2, <3>1, BareFadeAll
    <3>q. QED
      BY <3>2 DEF FormatsAgree, nested
  <2>3. CASE command # "fadeall"
    <3>1. answer = Rejected("MissingMessage")
      BY <1>2, <1>5, <2>3 DEF Parse
    <3>2. Refuses(answer) /\ Refuses(nested)
      BY <1>5, <2>1, <2>3, <3>1, EmptyRefused DEF Refuses, IsRejected, Rejected
    <3>q. QED
      BY <3>2 DEF FormatsAgree, nested
  <2>q. QED
    BY <2>2, <2>3
<1>q. QED
  BY <1>4, <1>5

\* What macros offer is decided by the first that has it, also where none is named.
LEMMA OfferedByFirst ==
  ASSUME NEW use \in MacroUses
  PROVE  IsFirstOf(Offered(use), MacroNames(use), Len(MacroNames(use)))
         /\ DOMAIN MacroNames(use) = 1 .. Len(MacroNames(use))
         /\ Len(MacroNames(use)) \in Nat
<1>1. CASE use = Null
  <2>1. MacroNames(use) = << >> /\ Offered(use) = None
    BY <1>1 DEF MacroNames, Offered, Null
  <2>2. IsFirstOf(None, << >>, 0)
    BY DEF IsFirstOf, None
  <2>q. QED
    BY <2>1, <2>2
<1>2. CASE use # Null
  <2>1. IsSequence(MacroNames(use))
    BY <1>2, OfferedIs
  <2>2. Offered(use) = MacroParams(MacroNames(use), Macros)
    BY <1>2 DEF Offered
  <2>q. QED
    BY <2>1, <2>2, FirstMacroDecides, SequenceDomain
<1>q. QED
  BY <1>1, <1>2

\* A macro fills in what the sender left out, the first of several first.
LEMMA MacrosDoFill == DecisionInv => MacrosFill
<1> SUFFICES ASSUME DecisionInv, Answered("text") PROVE MacrosFill
  BY DEF MacrosFill
<1> DEFINE args == ask.args
           names == MacroNames(ask.use)
           n == Len(names)
           p == Offered(ask.use)
           usable == {i \in DOMAIN names : /\ names[i][1] = "str" /\ names[i][2] \in DOMAIN Macros
                                           /\ IsObject(Macros[names[i][2]])}
           fields(i) == Macros[names[i][2]][2]
           offers(k) == {i \in usable : k \in DOMAIN fields(i)}
           offered == UNION {DOMAIN fields(i) : i \in usable}
           first(k) == CHOOSE i \in offers(k) : \A j \in offers(k) : i <= j
           filled == [k \in DOMAIN args \cup offered |->
                       IF k \in DOMAIN args THEN args[k] ELSE fields(first(k))[k]]
<1>1. /\ ask.use \in MacroUses /\ IsParameters(args)
      /\ answer = ParseCommand(Flattened(ask.command, FillIn(args, p), Null))
  BY TextAnswered
<1>2. IsFirstOf(p, names, n) /\ DOMAIN names = 1 .. n /\ n \in Nat
  BY <1>1, OfferedByFirst
<1> HIDE DEF p, names, n
<1>3. \A i \in 1 .. n : Given(names, i) = IF i \in usable THEN fields(i) ELSE None
  BY <1>2, Zenon DEF Given, MacroFields
<1>4. usable \subseteq 1 .. n
  BY <1>2
<1> HIDE DEF fields, usable
<1>5. \A i \in 1 .. n : \A k : k \in DOMAIN Given(names, i) <=> i \in offers(k)
  <2>1. DOMAIN None = {}
    BY DEF None
  <2>q. QED
    BY <1>3, <2>1
<1>6. \A k : k \in offered <=> \E i \in usable : k \in DOMAIN fields(i)
  OBVIOUS
<1>7. \A k : k \in DOMAIN p <=> k \in offered
  BY <1>2, <1>4, <1>5, <1>6 DEF IsFirstOf
<1>8. ASSUME NEW k \in DOMAIN p PROVE p[k] = fields(first(k))[k]
  <2>1. PICK i \in 1 .. n :
          /\ k \in DOMAIN Given(names, i) /\ p[k] = Given(names, i)[k]
          /\ \A j \in 1 .. n : k \in DOMAIN Given(names, j) => i <= j
    BY <1>2 DEF IsFirstOf
  <2>2. i \in offers(k) /\ \A j \in offers(k) : j \in 1 .. n /\ i <= j
    BY <1>4, <1>5, <2>1
  <2>3. first(k) \in offers(k) /\ \A j \in offers(k) : first(k) <= j
    BY <2>2
  <2>4. first(k) = i
    <3> HIDE DEF first, offers
    <3>1. first(k) <= i /\ i <= first(k) /\ first(k) \in 1 .. n
      BY <2>2, <2>3
    <3>q. QED
      BY <3>1
  <2>q. QED
    BY <1>3, <2>1, <2>2, <2>4
<1> HIDE DEF first, offers, offered
<1>9. FillIn(args, p) = filled
  <2>1. DOMAIN args \cup DOMAIN p = DOMAIN args \cup offered
    BY <1>7
  <2>2. FillIn(args, p) = [k \in DOMAIN args \cup offered |-> IF k \in DOMAIN args THEN args[k] ELSE p[k]]
    BY <2>1, Zenon DEF FillIn
  <2>q. QED
    BY <1>7, <1>8, <2>2
<1>10. answer = ParseCommand(Flattened(ask.command, filled, Null))
  <2> HIDE DEF filled
  <2>q. QED
    BY <1>1, <1>9
<1>q. QED
  BY <1>10, Zenon DEF MacrosFill, filled, first, offers, offered, usable, fields, names

\* What a request over HTTP is about and what it comes to.
LEMMA HttpAnswered ==
  ASSUME DecisionInv, Answered("http")
  PROVE  /\ ask.command \in DOMAIN ParamsOf /\ IsParameters(ask.args)
         /\ answer = ParseCommand(ExpandMacros(HandlerPayload(ask.command, Obj(ask.args)), Macros))
<1>1. AskHttp /\ answer = Received(HandlerPayload(ask.command, Obj(ask.args)), Macros)
  BY Zenon DEF DecisionInv, Answered
<1>2. PICK endpoint \in DOMAIN ParamsOf :
        \E body \in Bodies[endpoint] :
          ask = [kind |-> "http", command |-> endpoint, args |-> body, use |-> Null]
  BY <1>1 DEF AskHttp
<1>3. PICK body \in Bodies[endpoint] :
        ask = [kind |-> "http", command |-> endpoint, args |-> body, use |-> Null]
  BY <1>2
<1>4. ask.command = endpoint /\ ask.args = body
  BY <1>3
<1>5. IsParameters(body)
  <2>1. endpoint \in DOMAIN Bodies
    BY CommandAssumption
  <2>q. QED
    BY <2>1, CommandAssumption
<1>q. QED
  BY <1>1, <1>4, <1>5 DEF Received

\* What a command that looks for its target is about and what it comes to.
LEMMA TargetAnswered ==
  ASSUME DecisionInv, Answered("target")
  PROVE  /\ ask.command \in Selecting \cup {"input_volume", "input_mute"}
         /\ ask.voices \in InputVoices
         /\ IsParsed(answer, ask.command)
<1>1. AskTarget /\ answer = Received(Flattened(ask.command, ask.args, Null), Macros)
  BY Zenon DEF DecisionInv, Answered
<1>2. PICK command \in Selecting \cup {"input_volume", "input_mute"},
           sounding \in SUBSET Samples, voices \in InputVoices :
        \E args \in Bodies[command] :
          ask = [kind |-> "target", command |-> command, args |-> args, use |-> Null,
                 playing |-> sounding, voices |-> voices]
  BY <1>1 DEF AskTarget
<1>3. PICK args \in Bodies[command] :
        ask = [kind |-> "target", command |-> command, args |-> args, use |-> Null,
               playing |-> sounding, voices |-> voices]
  BY <1>2
<1>4. ask.command = command /\ ask.args = args /\ ask.voices = voices
  BY <1>3
<1>5. IsParameters(args)
  <2>1. command \in DOMAIN ParamsOf
    BY DEF Selecting, ParamsOf
  <2>2. command \in DOMAIN Bodies
    BY <2>1, CommandAssumption
  <2>q. QED
    BY <2>2, CommandAssumption
<1> DEFINE p == FillIn(args, Offered(Null))
<1>6. IsParameters(p)
  <2>1. IsParameters(None) /\ Offered(Null) = None
    BY DEF IsParameters, None, Offered
  <2>q. QED
    BY <1>5, <2>1, FilledParameters
<1>7. answer = ParseCommand(Flattened(command, p, Null))
  BY <1>1, <1>4, <1>5, FlattenedExpands DEF Received
<1>8. CommandOf(command) = command
  BY DEF CommandOf, Selecting
<1>9. answer = Parse(command, DOMAIN p # {}, Obj(p))
  BY <1>6, <1>7, <1>8, FlattenedParses
<1> HIDE DEF p
<1>10. IsParsed(answer, command)
  BY <1>9, ParseIs
<1>q. QED
  BY <1>2, <1>4, <1>10

\* What an answer to a command is: a refusal with its reason, or a command with
\* exactly the fields of its message.
LEMMA AnswersAreOK == DecisionInv => AnswerOK
<1> SUFFICES ASSUME DecisionInv, Answered("text") \/ Answered("http") \/ Answered("target")
             PROVE  AnswerOK
  BY DEF AnswerOK
<1>1. \E command : IsParsed(answer, command)
  <2>1. CASE Answered("text")
    BY <2>1, TextAnswered, ParsedIs
  <2>2. CASE Answered("http")
    BY <2>2, HttpAnswered, ParsedIs
  <2>3. CASE Answered("target")
    BY <2>3, TargetAnswered
  <2>q. QED
    BY <2>1, <2>2, <2>3
<1>2. PICK command : IsParsed(answer, command)
  BY <1>1
<1>q. QED
  BY <1>2, Zenon DEF AnswerOK, IsParsed

\* A command that selects names samples, touches those it names and no others, and a
\* seek of those the ones whose rate is known.
LEMMA TouchedIs ==
  ASSUME NEW r, NEW samples, ValidInternalId(r.args)
  PROVE  LET meant == {s \in samples :
                         \/ "internal_id" \in DOMAIN r.args /\ Numeral[r.args["internal_id"][2]] = s.number
                         \/ "id" \in DOMAIN r.args /\ s.id = r.args["id"]
                         \/ "file" \in DOMAIN r.args /\ s.file = r.args["file"][2]
                         \/ "voice" \in DOMAIN r.args /\ s.voice = r.args["voice"][2]}
         IN  /\ Touched(r, samples) \subseteq meant
             /\ r.command # "seek" => Touched(r, samples) = meant
<1> DEFINE a == r.args
<1>1. Criteria(a) = DOMAIN a \cap {"internal_id", "id", "file", "voice"}
  BY DEF Criteria, SampleSelector
<1>2. \A s : Matches(a, s) => Criteria(a) # {}
  BY <1>1 DEF Matches
<1>3. \A s : Matches(a, s) <=>
        \/ "internal_id" \in DOMAIN a /\ Numeral[a["internal_id"][2]] = s.number
        \/ "id" \in DOMAIN a /\ s.id = a["id"]
        \/ "file" \in DOMAIN a /\ s.file = a["file"][2]
        \/ "voice" \in DOMAIN a /\ s.voice = a["voice"][2]
  BY DEF Matches, ValidInternalId
<1>4. Touched(r, samples) = {s \in samples : Matches(a, s) /\ (r.command = "seek" => s.rated)}
  BY <1>2 DEF Touched
<1>q. QED
  BY <1>3, <1>4

\* The status of such a command tells whether it touched one, and whether it named any.
LEMMA SelectingStatus ==
  ASSUME ~IsRejected(answer), answer.command \in Selecting
  PROVE  /\ (CommandStatus(answer, ask.playing, ask.voices) = 200) = (Touched(answer, ask.playing) # {})
         /\ (CommandStatus(answer, ask.playing, ask.voices) = 400)
              = (\A f \in DOMAIN SampleSelector : f \notin DOMAIN answer.args)
<1>0. answer.command \notin {"input_volume", "input_mute"}
  BY DEF Selecting
<1>1. CommandStatus(answer, ask.playing, ask.voices) = StatusFor(SelectingOutcome(answer, ask.playing))
  BY <1>0, Zenon DEF CommandStatus
<1>2. StatusFor("Ok") = 200 /\ StatusFor("InvalidRequest") = 400 /\ StatusFor("NotFound") = 404
  BY DEF StatusFor
<1>3. Criteria(answer.args) = {} <=> \A f \in DOMAIN SampleSelector : f \notin DOMAIN answer.args
  BY DEF Criteria
<1>4. Criteria(answer.args) = {} => Touched(answer, ask.playing) = {}
  BY DEF Touched
<1> DEFINE outcome == SelectingOutcome(answer, ask.playing)
<1>5. /\ Criteria(answer.args) = {} => outcome = "InvalidRequest"
      /\ Criteria(answer.args) # {} /\ Touched(answer, ask.playing) = {} => outcome = "NotFound"
      /\ Criteria(answer.args) # {} /\ Touched(answer, ask.playing) # {} => outcome = "Ok"
  BY Zenon DEF SelectingOutcome
<1> HIDE DEF outcome
<1> DEFINE status == CommandStatus(answer, ask.playing, ask.voices)
<1>6. CASE Criteria(answer.args) = {}
  <2>1. status = 400
    BY <1>1, <1>2, <1>5, <1>6 DEF outcome
  <2> HIDE DEF status
  <2>2. (status = 200) = FALSE /\ (status = 400) = TRUE
    BY <2>1
  <2>q. QED
    BY <1>3, <1>4, <1>6, <2>2 DEF status
<1>7. CASE Criteria(answer.args) # {} /\ Touched(answer, ask.playing) = {}
  <2>1. status = 404
    BY <1>1, <1>2, <1>5, <1>7 DEF outcome
  <2> HIDE DEF status
  <2>2. (status = 200) = FALSE /\ (status = 400) = FALSE
    BY <2>1
  <2>q. QED
    BY <1>3, <1>7, <2>2 DEF status
<1>8. CASE Criteria(answer.args) # {} /\ Touched(answer, ask.playing) # {}
  <2>1. status = 200
    BY <1>1, <1>2, <1>5, <1>8 DEF outcome
  <2> HIDE DEF status
  <2>2. (status = 200) = TRUE /\ (status = 400) = FALSE
    BY <2>1
  <2>q. QED
    BY <1>3, <1>8, <2>2 DEF status
<1>q. QED
  BY <1>6, <1>7, <1>8

\* An input is reached by its number, or else as the first with the voice.
LEMMA InputReachedIs ==
  ASSUME NEW name, NEW voices \in InputVoices
  PROVE  LET reached == InputReached(name, voices)
         IN  /\ reached # 0 => \/ voices[reached] = name
                               \/ name \in DOMAIN Numeral /\ Numeral[name] = reached - 1
             /\ (\E i \in DOMAIN voices : voices[i] = name) => reached # 0
             /\ \A i \in DOMAIN voices :
                  (name \in DOMAIN Numeral /\ Numeral[name] = i - 1) => reached = i
<1> DEFINE byVoice == {i \in DOMAIN voices : voices[i] = name}
           reached == InputReached(name, voices)
<1>1. Len(voices) \in Nat /\ DOMAIN voices = 1 .. Len(voices)
  BY CommandAssumption, SequenceDomain
<1>2. name \in DOMAIN Numeral => Numeral[name] \in Nat
  BY CommandAssumption
<1>3. reached = IF name \in DOMAIN Numeral /\ Numeral[name] < Len(voices) THEN Numeral[name] + 1
                ELSE IF byVoice = {} THEN 0
                ELSE CHOOSE i \in byVoice : \A j \in byVoice : i <= j
  BY DEF InputReached
<1>4. CASE name \in DOMAIN Numeral /\ Numeral[name] < Len(voices)
  <2>1. reached = Numeral[name] + 1
    BY <1>3, <1>4
  <2> HIDE DEF reached
  <2>2. reached # 0 /\ Numeral[name] = reached - 1
    BY <1>2, <1>4, <2>1
  <2>3. \A i \in DOMAIN voices : Numeral[name] = i - 1 => reached = i
    BY <1>1, <1>2, <1>4, <2>1
  <2>q. QED
    BY <1>4, <2>2, <2>3 DEF reached
<1>5. CASE ~ (name \in DOMAIN Numeral /\ Numeral[name] < Len(voices))
  <2>1. \A i \in DOMAIN voices : ~ (name \in DOMAIN Numeral /\ Numeral[name] = i - 1)
    BY <1>1, <1>2, <1>5
  <2>2. byVoice = {} => reached = 0
    BY <1>3, <1>5
  <2>3. byVoice # {} => reached \in byVoice
    <3> SUFFICES ASSUME byVoice # {} PROVE reached \in byVoice
      OBVIOUS
    <3>1. byVoice \subseteq Nat
      BY <1>1
    <3>2. \E i \in byVoice : \A j \in byVoice : i <= j
      <4> HIDE DEF byVoice
      <4>q. QED
        BY <3>1, LeastNatural
    <3>3. reached = CHOOSE i \in byVoice : \A j \in byVoice : i <= j
      BY <1>3, <1>5
    <3>q. QED
      BY <3>2, <3>3
  <2>4. \A i \in byVoice : i # 0 /\ voices[i] = name
    BY <1>1
  <2> HIDE DEF reached
  <2>q. QED
    BY <2>1, <2>2, <2>3, <2>4 DEF reached
<1>q. QED
  BY <1>4, <1>5

\* A command that looks for its target reaches only what it names.
LEMMA OnlyTargetsNamed == DecisionInv => OnlyNamedTargets
<1> SUFFICES ASSUME DecisionInv, Answered("target") PROVE OnlyNamedTargets
  BY DEF OnlyNamedTargets
<1>1. /\ ask.command \in Selecting \cup {"input_volume", "input_mute"}
      /\ ask.voices \in InputVoices
      /\ IsParsed(answer, ask.command)
  BY TargetAnswered
<1>2. CASE IsRejected(answer)
  <2>0. answer.command \notin Selecting /\ answer.command \notin {"input_volume", "input_mute"}
    BY <1>2 DEF IsRejected, Selecting
  <2>1. CommandStatus(answer, ask.playing, ask.voices) = StatusFor("InvalidRequest")
    BY <1>2, <2>0, Zenon DEF CommandStatus
  <2>2. StatusFor("InvalidRequest") = 400
    BY DEF StatusFor
  <2>q. QED
    BY <1>2, <2>0, <2>1, <2>2, Zenon DEF OnlyNamedTargets
<1>3. CASE ~IsRejected(answer) /\ answer.command \in Selecting
  <2>1. ValidInternalId(answer.args)
    BY <1>1, <1>3 DEF IsParsed
  <2> DEFINE meant == {s \in ask.playing :
                         \/ "internal_id" \in DOMAIN answer.args
                              /\ Numeral[answer.args["internal_id"][2]] = s.number
                         \/ "id" \in DOMAIN answer.args /\ s.id = answer.args["id"]
                         \/ "file" \in DOMAIN answer.args /\ s.file = answer.args["file"][2]
                         \/ "voice" \in DOMAIN answer.args /\ s.voice = answer.args["voice"][2]}
             status == CommandStatus(answer, ask.playing, ask.voices)
  <2>2. /\ Touched(answer, ask.playing) \subseteq meant
        /\ answer.command # "seek" => Touched(answer, ask.playing) = meant
    BY <2>1, TouchedIs
  <2>3. /\ (status = 200) = (Touched(answer, ask.playing) # {})
        /\ (status = 400) = (\A f \in DOMAIN SampleSelector : f \notin DOMAIN answer.args)
    BY <1>3, SelectingStatus
  <2>q. QED
    BY <1>3, <2>2, <2>3, Zenon DEF OnlyNamedTargets, meant, status
<1>4. CASE ~IsRejected(answer) /\ answer.command \notin Selecting
  <2>1. answer.command \in {"input_volume", "input_mute"}
    BY <1>1, <1>4 DEF IsParsed
  <2> DEFINE reached == InputReached(answer.args["input"][2], ask.voices)
             status == CommandStatus(answer, ask.playing, ask.voices)
  <2>2. status = StatusFor(IF reached = 0 THEN "NotFound" ELSE "Ok")
    BY <1>4, <2>1, Zenon DEF CommandStatus
  <2>3. StatusFor("Ok") = 200 /\ StatusFor("NotFound") = 404
    BY DEF StatusFor
  <2>4. (status = 200) = (reached # 0)
    <3> HIDE DEF status, reached
    <3>q. QED
      BY <2>2, <2>3
  <2>5. /\ reached # 0 => \/ ask.voices[reached] = answer.args["input"][2]
                          \/ answer.args["input"][2] \in DOMAIN Numeral
                               /\ Numeral[answer.args["input"][2]] = reached - 1
        /\ (\E i \in DOMAIN ask.voices : ask.voices[i] = answer.args["input"][2]) => reached # 0
        /\ \A i \in DOMAIN ask.voices :
             (answer.args["input"][2] \in DOMAIN Numeral
                /\ Numeral[answer.args["input"][2]] = i - 1) => reached = i
    BY <1>1, InputReachedIs
  <2>q. QED
    BY <1>4, <2>4, <2>5, Zenon DEF OnlyNamedTargets, reached, status
<1>q. QED
  BY <1>2, <1>3, <1>4

\* How a field of an endpoint stands in the message that the handler makes of it.
PassesOn(x, params, message, name) ==
  /\ FieldOf(message, name) = name
  /\ x \in DOMAIN params.required =>
       name \in DOMAIN message.required /\ message.required[name] = params.required[x]
  /\ x \in DOMAIN params.optional =>
       /\ name \in DOMAIN message.optional /\ params.optional[x] # "flag"
       /\ \/ params.optional[x] = "any"
          \/ params.optional[x] = message.optional[name]
          \/ params.optional[x] = "bool" /\ message.optional[name] = "flag"

\* An endpoint is for a command with a message that has all its fields, of the same
\* type and required if they are.
IsEndpoint(e) ==
  LET params == ParamsOf[e]
      known  == DOMAIN params.required \cup DOMAIN params.optional
  IN  /\ e \in DOMAIN MessageOf /\ CommandOf(e) = e
      /\ \A f : MqttName(e, f) = PassedAs(e, FieldOf(params, f))
      /\ \A x, y \in known : PassedAs(e, x) = PassedAs(e, y) => x = y
      /\ \A x \in DOMAIN params.required : \A k : FieldOf(params, k) = x => k = x
      /\ \A x \in known : PassesOn(x, params, MessageOf[e], PassedAs(e, x))

\* Most pass their fields on under the names they have.
LEMMA PlainEndpoint ==
  ASSUME NEW e \in DOMAIN ParamsOf, e \notin {"play", "voice_fade_out"},
         ParamsOf[e].alias = None, e \in DOMAIN MessageOf, CommandOf(e) = e,
         \A x \in DOMAIN ParamsOf[e].required \cup DOMAIN ParamsOf[e].optional :
           PassesOn(x, ParamsOf[e], MessageOf[e], x)
  PROVE  IsEndpoint(e)
<1>1. \A f : PassedAs(e, f) = f /\ MqttName(e, f) = f
  BY DEF PassedAs, MqttName
<1>2. \A f : FieldOf(ParamsOf[e], f) = f
  BY DEF FieldOf, None
<1>3. \A x, y : PassedAs(e, x) = PassedAs(e, y) => x = y
  BY <1>1
<1>4. \A f : MqttName(e, f) = PassedAs(e, FieldOf(ParamsOf[e], f))
  BY <1>1, <1>2
<1>5. \A x \in DOMAIN ParamsOf[e].required \cup DOMAIN ParamsOf[e].optional :
        PassesOn(x, ParamsOf[e], MessageOf[e], PassedAs(e, x))
  BY <1>1
<1>q. QED
  BY <1>2, <1>3, <1>4, <1>5, Zenon DEF IsEndpoint

\* A struct without flags passes all its fields on to itself.
LEMMA SamePasses ==
  ASSUME NEW s, s.alias = None, \A x \in DOMAIN s.optional : s.optional[x] # "flag",
         NEW x
  PROVE  x \in DOMAIN s.required \cup DOMAIN s.optional => PassesOn(x, s, s, x)
<1>1. FieldOf(s, x) = x
  BY DEF FieldOf, None
<1>q. QED
  BY <1>1, Zenon DEF PassesOn

\* Every endpoint does.
LEMMA Endpoints ==
  ASSUME NEW e \in DOMAIN ParamsOf
  PROVE  IsEndpoint(e)
<1>1. CASE e = "play"
  <2>1. ParamsOf[e] = PlayParams /\ MessageOf[e] = PlayMessage /\ e \in DOMAIN MessageOf
    BY <1>1 DEF ParamsOf, MessageOf
  <2>2. CommandOf(e) = e
    BY <1>1 DEF CommandOf
  <2>3. /\ DOMAIN PlayParams.required = {"file"}
        /\ DOMAIN PlayParams.optional = {"id", "volume", "voice", "fade_in", "start_position_ms",
                                         "loop_mode", "crossfade_ms", "channel_map"}
        /\ \A f : FieldOf(PlayParams, f) = IF f = "loop" THEN "loop_mode" ELSE f
    BY DEF PlayParams, Schema, FieldOf
  <2>4. \A f : PassedAs(e, f) = (IF f = "loop_mode" THEN "loop" ELSE f)
               /\ MqttName(e, f) = (IF f = "loop_mode" THEN "loop" ELSE f)
    BY <1>1 DEF PassedAs, MqttName
  <2>5. PlayMessage.alias = None
    BY DEF PlayMessage, Schema
  <2>6. \A x \in {"file"} \cup {"id", "volume", "voice", "fade_in", "start_position_ms",
                                "loop_mode", "crossfade_ms", "channel_map"} :
          PassesOn(x, PlayParams, PlayMessage, IF x = "loop_mode" THEN "loop" ELSE x)
    <3>1. /\ PlayParams.required["file"] = "str" /\ PlayMessage.required["file"] = "str"
          /\ "file" \in DOMAIN PlayMessage.required
      BY DEF PlayParams, PlayMessage, Schema
    <3>2. \A x \in {"id", "volume", "voice", "fade_in", "start_position_ms", "crossfade_ms"} :
            /\ x \in DOMAIN PlayMessage.optional /\ PlayParams.optional[x] = PlayMessage.optional[x]
            /\ PlayParams.optional[x] # "flag"
      BY DEF PlayParams, PlayMessage, Schema
    <3>3. /\ "loop" \in DOMAIN PlayMessage.optional /\ PlayMessage.optional["loop"] = "bool"
          /\ PlayParams.optional["loop_mode"] = "bool"
          /\ "channel_map" \in DOMAIN PlayMessage.optional /\ PlayParams.optional["channel_map"] = "any"
      BY DEF PlayParams, PlayMessage, Schema
    <3>4. \A name : FieldOf(PlayMessage, name) = name
      BY <2>5 DEF FieldOf, None
    <3>5. PassesOn("file", PlayParams, PlayMessage, "file")
      BY <2>3, <3>1, <3>4 DEF PassesOn
    <3>6. ASSUME NEW x \in {"id", "volume", "voice", "fade_in", "start_position_ms", "crossfade_ms"}
          PROVE  PassesOn(x, PlayParams, PlayMessage, x)
      BY <2>3, <3>2, <3>4 DEF PassesOn
    <3>7. PassesOn("loop_mode", PlayParams, PlayMessage, "loop")
      BY <2>3, <3>3, <3>4 DEF PassesOn
    <3>8. PassesOn("channel_map", PlayParams, PlayMessage, "channel_map")
      BY <2>3, <3>3, <3>4 DEF PassesOn
    <3>q. QED
      BY <3>5, <3>6, <3>7, <3>8
  <2>q. QED
    BY <2>1, <2>2, <2>3, <2>4, <2>6 DEF IsEndpoint
<1>2. CASE e = "voice_fade_out"
  <2>1. /\ ParamsOf[e] = VoiceFadeOutParams /\ MessageOf[e] = VoiceFadeOutMessage
        /\ e \in DOMAIN MessageOf
    BY <1>2 DEF ParamsOf, MessageOf
  <2>2. CommandOf(e) = e
    BY <1>2 DEF CommandOf
  <2>3. /\ DOMAIN VoiceFadeOutParams.required = {"voice", "time_ms"}
        /\ DOMAIN VoiceFadeOutParams.optional = {}
        /\ \A f : FieldOf(VoiceFadeOutParams, f) = f
    BY DEF VoiceFadeOutParams, Schema, FieldOf, None
  <2>4. \A f : PassedAs(e, f) = (IF f = "time_ms" THEN "time" ELSE f)
               /\ MqttName(e, f) = (IF f = "time_ms" THEN "time" ELSE f)
    BY <1>2 DEF PassedAs, MqttName
  <2>6. \A x \in {"voice", "time_ms"} :
          PassesOn(x, VoiceFadeOutParams, VoiceFadeOutMessage, IF x = "time_ms" THEN "time" ELSE x)
    BY DEF PassesOn, VoiceFadeOutParams, VoiceFadeOutMessage, Schema, FieldOf, None
  <2>q. QED
    BY <2>1, <2>2, <2>3, <2>4, <2>6 DEF IsEndpoint
<1>3. CASE e = "fadeall"
  <2>1. ParamsOf[e] = FadeAllParams /\ MessageOf[e] = FadeAllMessage /\ e \in DOMAIN MessageOf
    BY <1>3 DEF ParamsOf, MessageOf
  <2>2. CommandOf(e) = e
    BY <1>3 DEF CommandOf
  <2>3. /\ FadeAllParams.alias = None
        /\ \A x \in DOMAIN FadeAllParams.required \cup DOMAIN FadeAllParams.optional :
             PassesOn(x, FadeAllParams, FadeAllMessage, x)
    <3>1. /\ DOMAIN FadeAllParams.required = {} /\ DOMAIN FadeAllParams.optional = {"time"}
          /\ FadeAllParams.optional["time"] = "uint" /\ FadeAllParams.alias = None
      BY DEF FadeAllParams, Schema, None
    <3>2. /\ DOMAIN FadeAllMessage.optional = {"time"} /\ FadeAllMessage.optional["time"] = "uint"
          /\ FieldOf(FadeAllMessage, "time") = "time"
      BY DEF FadeAllMessage, Schema, FieldOf
    <3>3. PassesOn("time", FadeAllParams, FadeAllMessage, "time")
      BY <3>1, <3>2 DEF PassesOn
    <3>q. QED
      BY <3>1, <3>3
  <2>q. QED
    BY <1>3, <2>1, <2>2, <2>3, PlainEndpoint
<1>4. CASE e \in {"precache", "cache_invalidate"}
  <2>1. ParamsOf[e] = FileParams /\ MessageOf[e] = FileMessage /\ e \in DOMAIN MessageOf
    BY <1>4 DEF ParamsOf, MessageOf
  <2>2. CommandOf(e) = e
    BY <1>4 DEF CommandOf
  <2>3. /\ FileParams.alias = None
        /\ \A x \in DOMAIN FileParams.required \cup DOMAIN FileParams.optional :
             PassesOn(x, FileParams, FileMessage, x)
    BY DEF PassesOn, FileParams, FileMessage, Schema, FieldOf, None
  <2>q. QED
    BY <1>4, <2>1, <2>2, <2>3, PlainEndpoint
<1>5. CASE e \in {"voice_stop", "voice_volume", "input_volume", "input_mute"}
  <2>1. /\ e = "voice_stop" => ParamsOf[e] = VoiceStopParams /\ MessageOf[e] = VoiceStopMessage
        /\ e = "voice_volume" => ParamsOf[e] = VoiceVolumeParams /\ MessageOf[e] = VoiceVolumeMessage
        /\ e = "input_volume" => ParamsOf[e] = InputVolumeParams /\ MessageOf[e] = InputVolumeMessage
        /\ e = "input_mute" => ParamsOf[e] = InputMuteParams /\ MessageOf[e] = InputMuteMessage
        /\ e \in DOMAIN MessageOf
    BY <1>5 DEF ParamsOf, MessageOf
  <2>2. CommandOf(e) = e
    BY <1>5 DEF CommandOf
  <2>3. /\ VoiceStopParams = VoiceStopMessage /\ VoiceVolumeParams = VoiceVolumeMessage
        /\ InputVolumeParams = InputVolumeMessage /\ InputMuteParams = InputMuteMessage
    BY DEF VoiceStopParams, VoiceStopMessage, VoiceVolumeParams, VoiceVolumeMessage,
           InputVolumeParams, InputVolumeMessage, InputMuteParams, InputMuteMessage
  <2>4. ASSUME NEW s \in {VoiceStopParams, VoiceVolumeParams, InputVolumeParams, InputMuteParams}
        PROVE  s.alias = None /\ DOMAIN s.optional = {}
    BY DEF VoiceStopParams, VoiceVolumeParams, InputVolumeParams, InputMuteParams, Schema, None
  <2>5. /\ ParamsOf[e] = MessageOf[e] /\ ParamsOf[e].alias = None
        /\ DOMAIN ParamsOf[e].optional = {}
    BY <1>5, <2>1, <2>3, <2>4
  <2>6. \A x \in DOMAIN ParamsOf[e].required \cup DOMAIN ParamsOf[e].optional :
          PassesOn(x, ParamsOf[e], MessageOf[e], x)
    BY <2>5, SamePasses
  <2>q. QED
    BY <1>5, <2>1, <2>2, <2>5, <2>6, PlainEndpoint
<1>6. CASE e \in {"seek", "volume", "stop"}
  <2>1. /\ e = "seek" => ParamsOf[e] = SeekParams /\ MessageOf[e] = SeekMessage
        /\ e = "volume" => ParamsOf[e] = VolumeParams /\ MessageOf[e] = VolumeMessage
        /\ e = "stop" => ParamsOf[e] = StopParams /\ MessageOf[e] = StopMessage
        /\ e \in DOMAIN MessageOf
    BY <1>6 DEF ParamsOf, MessageOf
  <2>2. CommandOf(e) = e
    BY <1>6 DEF CommandOf
  <2>3. SeekParams = SeekMessage /\ VolumeParams = VolumeMessage /\ StopParams = StopMessage
    BY DEF SeekParams, SeekMessage, VolumeParams, VolumeMessage, StopParams, StopMessage
  <2>4. ASSUME NEW s \in {SeekParams, VolumeParams, StopParams}
        PROVE  s.alias = None /\ \A x \in DOMAIN s.optional : s.optional[x] # "flag"
    BY DEF SeekParams, VolumeParams, StopParams, Schema, SampleSelector, FillIn
  <2>5. /\ ParamsOf[e] = MessageOf[e] /\ ParamsOf[e].alias = None
        /\ \A x \in DOMAIN ParamsOf[e].optional : ParamsOf[e].optional[x] # "flag"
    BY <1>6, <2>1, <2>3, <2>4
  <2>6. \A x \in DOMAIN ParamsOf[e].required \cup DOMAIN ParamsOf[e].optional :
          PassesOn(x, ParamsOf[e], MessageOf[e], x)
    BY <2>5, SamePasses
  <2>q. QED
    BY <1>6, <2>1, <2>2, <2>5, <2>6, PlainEndpoint
<1>7. CASE e = "speed"
  <2>1. ParamsOf[e] = SpeedParams /\ MessageOf[e] = SpeedMessage /\ e \in DOMAIN MessageOf
    BY <1>7 DEF ParamsOf, MessageOf
  <2>2. CommandOf(e) = e
    BY <1>7 DEF CommandOf
  <2>3. /\ SpeedParams.alias = None /\ SpeedMessage.alias = None
        /\ SpeedParams.required = SpeedMessage.required /\ DOMAIN SpeedParams.required = {"speed"}
    BY DEF SpeedParams, SpeedMessage, Schema
  <2>4. /\ DOMAIN SpeedParams.optional = DOMAIN SampleSelector \cup {"pitch_correction"}
        /\ DOMAIN SpeedMessage.optional = DOMAIN SampleSelector \cup {"pitch_correction"}
    BY DEF SpeedParams, SpeedMessage, Schema, FillIn
  <2>5. /\ \A x \in DOMAIN SampleSelector : /\ SpeedParams.optional[x] = "str"
                                            /\ SpeedMessage.optional[x] = "str"
        /\ SpeedParams.optional["pitch_correction"] = "bool"
        /\ SpeedMessage.optional["pitch_correction"] = "flag"
    BY DEF SpeedParams, SpeedMessage, Schema, FillIn, SampleSelector
  <2>6. "speed" \notin DOMAIN SampleSelector
    BY DEF SampleSelector
  <2>7. \A x \in DOMAIN SpeedParams.required \cup DOMAIN SpeedParams.optional :
          PassesOn(x, SpeedParams, SpeedMessage, x)
    <3>1. \A x : FieldOf(SpeedMessage, x) = x
      BY <2>3 DEF FieldOf, None
    <3>2. PassesOn("speed", SpeedParams, SpeedMessage, "speed")
      BY <2>3, <2>4, <2>6, <3>1 DEF PassesOn
    <3>3. PassesOn("pitch_correction", SpeedParams, SpeedMessage, "pitch_correction")
      BY <2>3, <2>4, <2>5, <3>1 DEF PassesOn
    <3>4. ASSUME NEW x \in DOMAIN SampleSelector
          PROVE  PassesOn(x, SpeedParams, SpeedMessage, x)
      BY <2>3, <2>4, <2>5, <2>6, <3>1 DEF PassesOn
    <3>q. QED
      BY <2>3, <2>4, <3>2, <3>3, <3>4
  <2>q. QED
    BY <1>7, <2>1, <2>2, <2>3, <2>7, PlainEndpoint
<1>q. QED
  BY <1>1, <1>2, <1>3, <1>4, <1>5, <1>6, <1>7 DEF ParamsOf

\* The fields of a body that are the endpoint's own, and what they are over MQTT.
Known(e) == DOMAIN ParamsOf[e].required \cup DOMAIN ParamsOf[e].optional
Own(e, a) == {f \in DOMAIN a : FieldOf(ParamsOf[e], f) \in Known(e) /\ a[f] # Null}
MqttFields(e, a) ==
  [name \in {MqttName(e, f) : f \in Own(e, a)} |->
     a[CHOOSE f \in Own(e, a) : MqttName(e, f) = name]]
GivenOnce(e, a) ==
  \A f, g \in DOMAIN a : FieldOf(ParamsOf[e], f) = FieldOf(ParamsOf[e], g) => f = g

\* Given once, every own field has its value there, under its name.
LEMMA MqttFieldsAre ==
  ASSUME NEW e \in DOMAIN ParamsOf, NEW a,
         \A f, g \in Own(e, a) : FieldOf(ParamsOf[e], f) = FieldOf(ParamsOf[e], g) => f = g
  PROVE  /\ DOMAIN MqttFields(e, a) = {MqttName(e, f) : f \in Own(e, a)}
         /\ \A f \in Own(e, a) : MqttFields(e, a)[MqttName(e, f)] = a[f]
<1> DEFINE own == Own(e, a)
<1>1. \A f, g \in own : MqttName(e, f) = MqttName(e, g) => f = g
  <2> SUFFICES ASSUME NEW f \in own, NEW g \in own, MqttName(e, f) = MqttName(e, g) PROVE f = g
    OBVIOUS
  <2>1. FieldOf(ParamsOf[e], f) \in Known(e) /\ FieldOf(ParamsOf[e], g) \in Known(e)
    BY DEF Own
  <2>2. PassedAs(e, FieldOf(ParamsOf[e], f)) = PassedAs(e, FieldOf(ParamsOf[e], g))
    BY Endpoints DEF IsEndpoint
  <2>3. FieldOf(ParamsOf[e], f) = FieldOf(ParamsOf[e], g)
    BY <2>1, <2>2, Endpoints DEF IsEndpoint, Known
  <2>q. QED
    BY <2>3
<1> HIDE DEF own
<1>2. MqttFields(e, a) = [name \in {MqttName(e, f) : f \in own} |->
                            a[CHOOSE f \in own : MqttName(e, f) = name]]
  BY DEF MqttFields, own
<1>3. \A f \in own : (CHOOSE g \in own : MqttName(e, g) = MqttName(e, f)) = f
  BY <1>1
<1>4. \A f \in own : MqttFields(e, a)[MqttName(e, f)] = a[f]
  BY <1>2, <1>3
<1>q. QED
  BY <1>2, <1>4 DEF own

\* What the endpoint decodes, every own field has under the name of its struct.
LEMMA DecodedBody ==
  ASSUME NEW e \in DOMAIN ParamsOf, NEW a, Decodes(Obj(a), ParamsOf[e])
  PROVE  LET given == Decoded(Obj(a), ParamsOf[e])
         IN  /\ DOMAIN given = {FieldOf(ParamsOf[e], f) : f \in Own(e, a)}
             /\ \A f \in Own(e, a) : given[FieldOf(ParamsOf[e], f)] = a[f]
             /\ \A f, g \in Own(e, a) : FieldOf(ParamsOf[e], f) = FieldOf(ParamsOf[e], g) => f = g
<1> DEFINE own == Own(e, a)
           F(f) == FieldOf(ParamsOf[e], f)
           given == Decoded(Obj(a), ParamsOf[e])
<1>1. Obj(a)[2] = a
  BY DEF Obj
<1>2. given = [field \in {F(f) : f \in own} |-> a[CHOOSE f \in own : F(f) = field]]
  BY <1>1 DEF Decoded, Own, Known
<1>3. \A f, g \in own : F(f) = F(g) => f = g
  BY <1>1 DEF Decodes, Own
<1> HIDE DEF own, given, F
<1>4. \A f \in own : (CHOOSE g \in own : F(g) = F(f)) = f
  BY <1>3
<1>5. \A f \in own : given[F(f)] = a[f]
  BY <1>2, <1>4
<1>6. DOMAIN given = {F(f) : f \in own}
  BY <1>2
<1>q. QED
  BY <1>3, <1>5, <1>6 DEF own, given, F

\* So the handler passes on what a client of MQTT would send.
LEMMA BodyPassedOn ==
  ASSUME NEW e \in DOMAIN ParamsOf, NEW a, Decodes(Obj(a), ParamsOf[e])
  PROVE  HandlerPayload(e, Obj(a))
           = Obj([command |-> Text(e), message |-> Obj(MqttFields(e, a))])
<1> DEFINE own == Own(e, a)
           F(f) == FieldOf(ParamsOf[e], f)
           given == Decoded(Obj(a), ParamsOf[e])
           message == [name \in {PassedAs(e, x) : x \in DOMAIN given} |->
                         given[CHOOSE x \in DOMAIN given : PassedAs(e, x) = name]]
<1>1. e \notin Bare
  BY DEF Bare, ParamsOf
<1>2. HandlerPayload(e, Obj(a)) = Obj([command |-> Text(e), message |-> Obj(message)])
  BY <1>1, Zenon DEF HandlerPayload, Text
<1>3. /\ DOMAIN given = {F(f) : f \in own}
      /\ \A f \in own : given[F(f)] = a[f]
      /\ \A f, g \in own : F(f) = F(g) => f = g
  BY DecodedBody
<1>4. \A f \in own : F(f) \in Known(e) /\ MqttName(e, f) = PassedAs(e, F(f))
  BY Endpoints DEF IsEndpoint, Own
<1>5. \A x, y \in Known(e) : PassedAs(e, x) = PassedAs(e, y) => x = y
  BY Endpoints DEF IsEndpoint, Known
<1>6. /\ DOMAIN MqttFields(e, a) = {MqttName(e, f) : f \in own}
      /\ \A f \in own : MqttFields(e, a)[MqttName(e, f)] = a[f]
  <2> HIDE DEF F
  <2>1. \A f, g \in Own(e, a) : FieldOf(ParamsOf[e], f) = FieldOf(ParamsOf[e], g) => f = g
    BY <1>3 DEF F
  <2>q. QED
    BY <2>1, MqttFieldsAre
<1>7. MqttFields(e, a) = [name \in DOMAIN MqttFields(e, a) |-> MqttFields(e, a)[name]]
  BY DEF MqttFields
<1> HIDE DEF own, F, given
<1>8. \A x \in DOMAIN given : (CHOOSE y \in DOMAIN given : PassedAs(e, y) = PassedAs(e, x)) = x
  BY <1>3, <1>4, <1>5
<1>9. DOMAIN message = DOMAIN MqttFields(e, a)
  BY <1>3, <1>4, <1>6
<1>10. \A f \in own : message[MqttName(e, f)] = a[f]
  <2> SUFFICES ASSUME NEW f \in own PROVE message[MqttName(e, f)] = a[f]
    OBVIOUS
  <2>1. F(f) \in DOMAIN given /\ MqttName(e, f) = PassedAs(e, F(f)) /\ given[F(f)] = a[f]
    BY <1>3, <1>4
  <2>2. message[PassedAs(e, F(f))] = given[F(f)]
    BY <1>8, <2>1
  <2>q. QED
    BY <2>1, <2>2
<1>11. \A name \in DOMAIN message : message[name] = MqttFields(e, a)[name]
  <2> SUFFICES ASSUME NEW name \in DOMAIN message PROVE message[name] = MqttFields(e, a)[name]
    OBVIOUS
  <2> HIDE DEF message
  <2>1. PICK f \in own : name = MqttName(e, f)
    BY <1>6, <1>9
  <2>q. QED
    BY <1>6, <1>10, <2>1
<1>12. message = [name \in DOMAIN message |-> message[name]]
  OBVIOUS
<1> HIDE DEF message
<1>13. message = MqttFields(e, a)
  BY <1>7, <1>9, <1>11, <1>12
<1>q. QED
  BY <1>2, <1>13

\* What it refuses is no message over MQTT either, unless a field is given twice.
LEMMA RefusedNoMessage ==
  ASSUME NEW e \in DOMAIN ParamsOf, NEW a, GivenOnce(e, a),
         Decodes(Obj(MqttFields(e, a)), MessageOf[e])
  PROVE  Decodes(Obj(a), ParamsOf[e])
<1> DEFINE P == ParamsOf[e]
           M == MessageOf[e]
           own == Own(e, a)
           same == MqttFields(e, a)
           F(f) == FieldOf(P, f)
           name(x) == PassedAs(e, x)
<1>1. /\ \A f : MqttName(e, f) = name(F(f))
      /\ \A x, y \in Known(e) : name(x) = name(y) => x = y
      /\ \A x \in DOMAIN P.required : \A k : F(k) = x => k = x
      /\ \A x \in Known(e) : PassesOn(x, P, M, name(x))
  BY Endpoints DEF IsEndpoint, Known
<1>2. /\ DOMAIN same = {MqttName(e, f) : f \in own}
      /\ \A f \in own : same[MqttName(e, f)] = a[f]
  <2>1. \A f, g \in Own(e, a) : FieldOf(ParamsOf[e], f) = FieldOf(ParamsOf[e], g) => f = g
    BY DEF GivenOnce, Own
  <2>q. QED
    BY <2>1, MqttFieldsAre
<1>3. Obj(same)[2] = same /\ Obj(a)[2] = a /\ IsObject(Obj(a))
  BY DEF Obj, IsObject
<1>4. /\ DOMAIN M.required \subseteq DOMAIN same
      /\ \A key \in DOMAIN same :
           /\ FieldOf(M, key) \in DOMAIN M.required => OfType(same[key], M.required[FieldOf(M, key)])
           /\ FieldOf(M, key) \in DOMAIN M.optional =>
                \/ OfType(same[key], M.optional[FieldOf(M, key)])
                \/ same[key] = Null /\ M.optional[FieldOf(M, key)] # "flag"
  BY <1>3, Zenon DEF Decodes
<1>5. \A f \in own : f \in DOMAIN a /\ F(f) \in Known(e) /\ a[f] # Null
  BY DEF Own
<1>6. Known(e) = DOMAIN P.required \cup DOMAIN P.optional
  BY DEF Known
<1>7. \A f, g \in DOMAIN a : F(f) = F(g) => f = g
  BY DEF GivenOnce
<1>8. own = {f \in DOMAIN a : F(f) \in Known(e) /\ a[f] # Null}
  BY DEF Own
<1> HIDE DEF P, M, own, same, F, name
<1>9. ASSUME NEW x \in DOMAIN P.required PROVE x \in own /\ F(x) = x
  <2>1. x \in Known(e) /\ name(x) \in DOMAIN M.required
    BY <1>1, <1>6 DEF PassesOn
  <2>2. PICK k \in own : MqttName(e, k) = name(x)
    BY <1>2, <1>4, <2>1
  <2>3. F(k) = x
    BY <1>1, <1>5, <2>1, <2>2
  <2>q. QED
    BY <1>1, <2>3
<1>10. ASSUME NEW f \in own
       PROVE  /\ F(f) \in DOMAIN P.required => OfType(a[f], P.required[F(f)])
              /\ F(f) \in DOMAIN P.optional => OfType(a[f], P.optional[F(f)])
  <2> DEFINE n == name(F(f))
  <2>1. n \in DOMAIN same /\ same[n] = a[f] /\ a[f] # Null
    BY <1>1, <1>2, <1>5
  <2>2. PassesOn(F(f), P, M, n)
    BY <1>1, <1>5
  <2> HIDE DEF n
  <2>3. FieldOf(M, n) = n
    BY <2>2 DEF PassesOn
  <2>4. ASSUME F(f) \in DOMAIN P.required PROVE OfType(a[f], P.required[F(f)])
    <3>1. n \in DOMAIN M.required /\ M.required[n] = P.required[F(f)]
      BY <2>2, <2>4 DEF PassesOn
    <3>q. QED
      BY <1>4, <2>1, <2>3, <3>1
  <2>5. ASSUME F(f) \in DOMAIN P.optional PROVE OfType(a[f], P.optional[F(f)])
    <3>1. /\ n \in DOMAIN M.optional
          /\ \/ P.optional[F(f)] = "any"
             \/ P.optional[F(f)] = M.optional[n]
             \/ P.optional[F(f)] = "bool" /\ M.optional[n] = "flag"
      BY <2>2, <2>5 DEF PassesOn
    <3>2. OfType(a[f], M.optional[n])
      BY <1>4, <2>1, <2>3, <3>1
    <3>3. OfType(a[f], "any") /\ (OfType(a[f], "flag") => OfType(a[f], "bool"))
      BY DEF OfType
    <3>q. QED
      BY <3>1, <3>2, <3>3
  <2>q. QED
    BY <2>4, <2>5
<1>11. ASSUME NEW key \in DOMAIN a
       PROVE  /\ F(key) \in DOMAIN P.required => OfType(a[key], P.required[F(key)])
              /\ F(key) \in DOMAIN P.optional =>
                   \/ OfType(a[key], P.optional[F(key)])
                   \/ a[key] = Null /\ P.optional[F(key)] # "flag"
  <2>1. CASE key \in own
    BY <1>10, <2>1
  <2>2. CASE key \notin own
    <3>1. F(key) \notin DOMAIN P.required
      BY <1>1, <1>9, <2>2
    <3>2. F(key) \in DOMAIN P.optional => a[key] = Null /\ P.optional[F(key)] # "flag"
      BY <1>1, <1>6, <1>8, <2>2 DEF PassesOn
    <3>q. QED
      BY <3>1, <3>2
  <2>q. QED
    BY <2>1, <2>2
<1>12. DOMAIN P.required \subseteq DOMAIN a
  BY <1>5, <1>9
<1>q. QED
  BY <1>3, <1>7, <1>11, <1>12, Zenon DEF Decodes, P, F

\* A body of the endpoint comes to the command that the same parameters are over MQTT,
\* and one that it refuses to none.
LEMMA HttpDoesAsMqtt == DecisionInv => HttpAsMqtt
<1> SUFFICES ASSUME DecisionInv, Answered("http") PROVE HttpAsMqtt
  BY DEF HttpAsMqtt
<1> DEFINE e == ask.command
           a == ask.args
           mqtt == ParseCommand(Nested(e, MqttFields(e, a), Null))
<1>1. /\ e \in DOMAIN ParamsOf
      /\ answer = ParseCommand(ExpandMacros(HandlerPayload(e, Obj(a)), Macros))
  BY HttpAnswered
<1>2. mqtt = Parse(e, TRUE, Obj(MqttFields(e, a))) /\ e \in DOMAIN MessageOf /\ e \notin Bare
  <2>1. CommandOf(e) = e /\ e \in DOMAIN MessageOf
    BY <1>1, Endpoints DEF IsEndpoint
  <2>2. e \notin Bare
    BY <1>1 DEF ParamsOf, Bare
  <2>q. QED
    BY <2>1, <2>2, NestedParses
<1>3. HttpAsMqtt <=>
        IF IsRejected(answer)
        THEN IsRejected(mqtt) \/ \E f, g \in DOMAIN a : f # g /\ FieldOf(ParamsOf[e], f) = FieldOf(ParamsOf[e], g)
        ELSE answer = mqtt
  BY Zenon DEF HttpAsMqtt, MqttFields, Own, Known
<1> HIDE DEF e, a, mqtt
<1>4. CASE Decodes(Obj(a), ParamsOf[e])
  <2> DEFINE own == [command |-> Text(e), message |-> Obj(MqttFields(e, a))]
  <2>1. HandlerPayload(e, Obj(a)) = Obj(own)
    BY <1>1, <1>4, BodyPassedOn
  <2>2. IsFields(own) /\ "macro" \notin DOMAIN own
    BY DEF IsFields
  <2>3. Nested(e, MqttFields(e, a), Null) = Obj(FillIn(own, None))
    BY DEF Nested, Using
  <2> HIDE DEF own
  <2>4. Nested(e, MqttFields(e, a), Null) = Obj(own)
    BY <2>2, <2>3, FillInNothing
  <2>5. ExpandMacros(Obj(own), Macros) = Obj(own)
    <3>1. Obj(own)[2] = own
      BY DEF Obj
    <3> DEFINE v == Obj(own)
    <3>2. "macro" \notin DOMAIN v[2]
      BY <2>2, <3>1
    <3> HIDE DEF v
    <3>3. ExpandMacros(v, Macros) = v
      BY <3>2, Zenon DEF ExpandMacros
    <3>q. QED
      BY <3>3 DEF v
  <2>6. answer = mqtt
    BY <1>1, <2>1, <2>4, <2>5 DEF mqtt
  <2>q. QED
    BY <1>3, <2>6
<1>5. CASE ~Decodes(Obj(a), ParamsOf[e])
  <2>1. HandlerPayload(e, Obj(a)) = Refused
    BY <1>2, <1>5, Zenon DEF HandlerPayload
  <2>2. "macro" \notin DOMAIN Refused[2] /\ "command" \notin DOMAIN Refused[2]
    BY DEF Refused, Obj
  <2>3. ExpandMacros(Refused, Macros) = Refused
    BY <2>2, Zenon DEF ExpandMacros
  <2>4. ParseCommand(Refused) = Rejected("JsonError")
    BY <2>2, Zenon DEF ParseCommand, IsMqttCommand
  <2>5. IsRejected(answer)
    BY <1>1, <2>1, <2>3, <2>4 DEF IsRejected, Rejected
  <2>6. CASE GivenOnce(e, a)
    <3>1. ~Decodes(Obj(MqttFields(e, a)), MessageOf[e])
      BY <1>1, <1>5, <2>6, RefusedNoMessage
    <3>2. mqtt = WithMessage(e, Obj(MqttFields(e, a)))
      BY <1>2, Zenon DEF Parse
    <3>3. mqtt = Rejected("JsonError")
      BY <3>1, <3>2, Zenon DEF WithMessage
    <3>q. QED
      BY <1>3, <2>5, <3>3 DEF IsRejected, Rejected
  <2>7. CASE ~GivenOnce(e, a)
    BY <1>3, <2>5, <2>7 DEF GivenOnce
  <2>q. QED
    BY <2>6, <2>7
<1>q. QED
  BY <1>4, <1>5

\* A command means the same however it is sent: flattened or nested, over MQTT or
\* HTTP, with macros or written out, and reaches only what it names.
THEOREM CommandsAreUnderstood == DecisionSpec => []CommandsUnderstood
<1>1. DecisionInv => CommandsUnderstood
  BY AnswersAreOK, FormatsDoAgree, MacrosDoFill, HttpDoesAsMqtt, OnlyTargetsNamed
     DEF CommandsUnderstood
<1>q. QED
  BY <1>1, DecisionInvariance, PTL

-----------------------------------------------------------------------------
(* Decoding: what a resampler puts out, what its chunks join to and what   *)
(* the packets of a file come to.                                          *)

\* A quotient is the greatest number of whole divisors.
LEMMA QuotientIs ==
  ASSUME NEW x \in Int, NEW d \in Nat \ {0}
  PROVE  /\ x \div d \in Int
         /\ (x \div d) * d <= x /\ x < (x \div d) * d + d
OBVIOUS

\* No greater number of divisors fits.
LEMMA QuotientGreatest ==
  ASSUME NEW x \in Int, NEW d \in Nat \ {0}, NEW q \in Int, q * d <= x
  PROVE  q <= x \div d
<1> DEFINE p == x \div d
<1>1. p \in Int /\ x < p * d + d
  BY QuotientIs
<1> HIDE DEF p
<1>2. ASSUME q >= p + 1 PROVE FALSE
  <2>1. q * d >= (p + 1) * d
    BY <1>1, <1>2
  <2>2. (p + 1) * d = p * d + d
    BY <1>1
  <2>q. QED
    BY <1>1, <2>1, <2>2
<1>q. QED
  BY <1>1, <1>2 DEF p

\* A greater number has as many at least.
LEMMA QuotientsOrdered ==
  ASSUME NEW x \in Int, NEW y \in Int, x <= y, NEW d \in Nat \ {0}
  PROVE  x \div d <= y \div d
<1>1. x \div d \in Int /\ (x \div d) * d <= x
  BY QuotientIs
<1> DEFINE q == x \div d
<1>2. q \in Int /\ q * d <= y
  BY <1>1
<1> HIDE DEF q
<1>3. q <= y \div d
  BY <1>2, QuotientGreatest
<1>q. QED
  BY <1>3 DEF q

\* Rates as they are assumed.
LEMMA RatesAre ==
  ASSUME NEW rates \in FileRates
  PROVE  /\ rates.from \in Nat \ {0} /\ rates.to \in Nat \ {0}
         /\ rates.delay \in Nat /\ rates.slack \in Nat
         /\ Chunk \in Nat \ {0} /\ DrainLimit \in Nat
         /\ ~Same(rates) =>
              DrainLimit * Chunk * rates.to >= (rates.delay + rates.slack + 2) * rates.from
BY DecodeAssumption

\* The filter never puts out less when more is put in.
LEMMA ProducedGrows ==
  ASSUME NEW rates \in FileRates, NEW fed \in Nat, NEW more \in Nat
  PROVE  /\ Produced(rates, fed) \in Nat /\ Produced(rates, fed + more) \in Nat
         /\ Produced(rates, fed) <= Produced(rates, fed + more)
<1> DEFINE to == rates.to
           from == rates.from
           first == (fed * to) \div from
           after == ((fed + more) * to) \div from
<1>1. from \in Nat \ {0} /\ to \in Nat \ {0} /\ rates.slack \in Nat
  BY RatesAre
<1> HIDE DEF to, from
<1>2. fed * to \in Int /\ (fed + more) * to \in Int /\ fed * to <= (fed + more) * to
  <2>1. (fed + more) * to = fed * to + more * to /\ more * to >= 0
    BY <1>1
  <2>q. QED
    BY <1>1, <2>1
<1>3. first \in Int /\ after \in Int
  BY <1>1, <1>2, QuotientIs
<1>4. first <= after
  BY <1>1, <1>2, QuotientsOrdered
<1>5. /\ Produced(rates, fed) = IF first > rates.slack THEN first - rates.slack ELSE 0
      /\ Produced(rates, fed + more) = IF after > rates.slack THEN after - rates.slack ELSE 0
  BY DEF Produced, from, to
<1> HIDE DEF first, after
<1>q. QED
  BY <1>1, <1>3, <1>4, <1>5

\* What is heard of it: all but the lead-in.
Heard(rates, fed) ==
  IF Produced(rates, fed) > rates.delay THEN Produced(rates, fed) - rates.delay ELSE 0

\* That is no more than the frames put in come to at the output's rate,
LEMMA HeardExpected ==
  ASSUME NEW rates \in FileRates, NEW fed \in Nat, NEW received \in Nat, fed <= received
  PROVE  /\ Heard(rates, fed) \in Nat /\ Expected(rates, received) \in Nat
         /\ Heard(rates, fed) <= Expected(rates, received)
<1> DEFINE to == rates.to
           from == rates.from
           out == (fed * to) \div from
           twice == 2 * from
           x == 2 * received * to + from
<1>1. from \in Nat \ {0} /\ to \in Nat \ {0} /\ rates.slack \in Nat /\ rates.delay \in Nat
  BY RatesAre
<1>2. Heard(rates, fed) = IF out > rates.slack
                          THEN IF out - rates.slack > rates.delay THEN out - rates.slack - rates.delay ELSE 0
                          ELSE IF 0 > rates.delay THEN 0 - rates.delay ELSE 0
  BY Zenon DEF Heard, Produced, out, from, to
<1>3. Expected(rates, received) = x \div twice
  BY DEF Expected
<1> HIDE DEF to, from
<1>4. fed * to \in Nat /\ received * to \in Nat /\ fed * to <= received * to
  BY <1>1
<1>5. twice \in Nat \ {0} /\ x \in Nat
  BY <1>1, <1>4
<1>6. out \in Int /\ out * from <= fed * to
  BY <1>1, <1>4, QuotientIs
<1>7. x \div twice \in Int /\ x < (x \div twice) * twice + twice
  BY <1>5, QuotientIs
<1> HIDE DEF out
<1>8. 0 * twice <= x /\ out * twice <= x
  <2>1. out * twice = 2 * (out * from)
    BY <1>1, <1>6
  <2>2. x = 2 * (received * to) + from
    BY <1>1
  <2> HIDE DEF x, twice
  <2>q. QED
    BY <1>1, <1>4, <1>5, <1>6, <2>1, <2>2
<1> HIDE DEF x, twice
<1>9. 0 <= x \div twice /\ out <= x \div twice
  BY <1>5, <1>6, <1>8, QuotientGreatest
<1>q. QED
  BY <1>1, <1>2, <1>3, <1>6, <1>7, <1>9

\* and with the zeroes that a flush may add it is as much.
LEMMA DrainedEnough ==
  ASSUME NEW rates \in FileRates, ~Same(rates), NEW fed \in Nat, NEW received \in Nat,
         received < fed + Chunk
  PROVE  Expected(rates, received) <= Heard(rates, fed + (DrainLimit + 1) * Chunk)
<1> DEFINE to == rates.to
           from == rates.from
           delay == rates.delay
           slack == rates.slack
           all == fed + (DrainLimit + 1) * Chunk
           out == (all * to) \div from
           twice == 2 * from
           x == 2 * received * to + from
           e == x \div twice
<1>1. /\ from \in Nat \ {0} /\ to \in Nat \ {0} /\ slack \in Nat /\ delay \in Nat
      /\ Chunk \in Nat \ {0} /\ DrainLimit \in Nat
      /\ DrainLimit * Chunk * to >= (delay + slack + 2) * from
  BY RatesAre
<1>2. Heard(rates, all) = IF out > slack
                          THEN IF out - slack > delay THEN out - slack - delay ELSE 0
                          ELSE IF 0 > delay THEN 0 - delay ELSE 0
  BY Zenon DEF Heard, Produced, out, from, to, slack, delay
<1>3. Expected(rates, received) = e
  BY DEF Expected
<1> HIDE DEF to, from, slack, delay
<1>4. /\ received * to \in Nat /\ fed * to \in Nat /\ Chunk * to \in Nat
      /\ DrainLimit * Chunk * to \in Nat
  BY <1>1
<1>5. all \in Nat /\ all * to = fed * to + DrainLimit * Chunk * to + Chunk * to
  BY <1>1
<1>6. received * to <= fed * to + Chunk * to
  <2>1. received * to <= (fed + Chunk) * to
    BY <1>1
  <2>2. (fed + Chunk) * to = fed * to + Chunk * to
    BY <1>1
  <2>q. QED
    BY <2>1, <2>2
<1>7. twice \in Nat \ {0} /\ x \in Nat
  BY <1>1, <1>4
<1>8. e \in Int /\ e * twice <= x
  <2> HIDE DEF x, twice
  <2>q. QED
    BY <1>7, QuotientIs
<1> HIDE DEF all, e
<1>9. (e + slack + delay) * from <= all * to
  <2>1. (e + slack + delay) * from = e * from + (delay + slack) * from
    BY <1>1, <1>8
  <2>2. (delay + slack + 2) * from = (delay + slack) * from + 2 * from
    BY <1>1
  <2>3. e * twice = 2 * (e * from)
    BY <1>1, <1>8
  <2>4. x = 2 * (received * to) + from
    BY <1>1
  <2>5. e * from \in Int /\ (delay + slack) * from \in Int
    BY <1>1, <1>8
  <2>6. 2 * (e * from) <= 2 * (received * to) + from
    BY <1>8, <2>3, <2>4
  <2> HIDE DEF x, twice
  <2>7. e * from <= received * to + from
    BY <1>1, <1>4, <2>5, <2>6
  <2>8. all * to >= received * to + DrainLimit * Chunk * to
    BY <1>4, <1>5, <1>6
  <2>9. DrainLimit * Chunk * to >= (delay + slack) * from + 2 * from
    BY <1>1, <2>2
  <2> DEFINE a == all * to
             b == received * to
             c == DrainLimit * Chunk * to
             f == (delay + slack) * from
             g == e * from
  <2>10. a \in Int /\ b \in Int /\ c \in Int /\ f \in Int /\ g \in Int
    BY <1>1, <1>4, <1>5, <2>5
  <2>11. g <= b + from /\ a >= b + c /\ c >= f + 2 * from
    BY <2>7, <2>8, <2>9
  <2> HIDE DEF a, b, c, f, g
  <2>12. g + f <= a
    BY <1>1, <2>10, <2>11
  <2>q. QED
    BY <2>1, <2>12 DEF a, f, g
<1>10. all * to \in Int /\ e + slack + delay \in Int
  BY <1>1, <1>4, <1>5, <1>8
<1>11. e + slack + delay <= out /\ out \in Int
  BY <1>1, <1>9, <1>10, QuotientGreatest, QuotientIs
<1> HIDE DEF out
<1>12. Heard(rates, all) >= e
  BY <1>1, <1>2, <1>8, <1>11
<1>q. QED
  BY <1>3, <1>12 DEF all

\* Numbered frames are a sequence of so many.
LEMMA NumbersAre ==
  ASSUME NEW first \in Int, NEW after \in Int
  PROVE  /\ Numbers(first, after) \in Seq(Int)
         /\ Len(Numbers(first, after)) = IF first <= after THEN after - first ELSE 0
         /\ DOMAIN Numbers(first, after) = 1 .. Len(Numbers(first, after))
         /\ \A i \in DOMAIN Numbers(first, after) : Numbers(first, after)[i] = first + i - 1
         /\ after <= first => Numbers(first, after) = << >>
<1>1. CASE first <= after
  <2>1. after - first \in Nat
    BY <1>1
  <2>2. Numbers(first, after) \in [1 .. (after - first) -> Int]
    BY DEF Numbers
  <2>3. Numbers(first, after) \in Seq(Int) /\ Len(Numbers(first, after)) = after - first
    BY <2>1, <2>2
  <2>4. after <= first => Numbers(first, after) = << >>
    BY <1>1, <2>3
  <2>q. QED
    BY <1>1, <2>3, <2>4 DEF Numbers
<1>2. CASE ~(first <= after)
  <2>1. 1 .. (after - first) = {}
    BY <1>2
  <2>2. Numbers(first, after) = << >>
    BY <2>1 DEF Numbers
  <2>q. QED
    BY <1>2, <2>2
<1>q. QED
  BY <1>1, <1>2

\* From a on to b there are b - a of them.
LEMMA NumbersOf ==
  ASSUME NEW a \in Int, NEW b \in Int, a <= b
  PROVE  /\ Numbers(a, b) \in Seq(Int) /\ Len(Numbers(a, b)) = b - a
         /\ \A i \in 1 .. (b - a) : Numbers(a, b)[i] = a + i - 1
<1> DEFINE s == Numbers(a, b)
<1>1. /\ s \in Seq(Int) /\ Len(s) = IF a <= b THEN b - a ELSE 0
      /\ DOMAIN s = 1 .. Len(s) /\ \A i \in DOMAIN s : s[i] = a + i - 1
  BY NumbersAre
<1> HIDE DEF s
<1>2. Len(s) = b - a /\ DOMAIN s = 1 .. (b - a)
  BY <1>1
<1>q. QED
  BY <1>1, <1>2 DEF s

\* Two sequences of numbers put together.
LEMMA ConcatOf ==
  ASSUME NEW s \in Seq(Int), NEW t \in Seq(Int)
  PROVE  /\ s \o t \in Seq(Int) /\ Len(s \o t) = Len(s) + Len(t)
         /\ \A i \in 1 .. (Len(s) + Len(t)) :
              (s \o t)[i] = IF i <= Len(s) THEN s[i] ELSE t[i - Len(s)]
OBVIOUS

\* Numbers that follow one another make one row.
LEMMA NumbersJoin ==
  ASSUME NEW a \in Int, NEW b \in Int, NEW c \in Int, a <= b, b <= c
  PROVE  Numbers(a, b) \o Numbers(b, c) = Numbers(a, c)
<1> DEFINE s == Numbers(a, b)
           t == Numbers(b, c)
           u == Numbers(a, c)
<1>1. s \in Seq(Int) /\ Len(s) = b - a /\ \A i \in 1 .. (b - a) : s[i] = a + i - 1
  BY NumbersOf
<1>2. t \in Seq(Int) /\ Len(t) = c - b /\ \A i \in 1 .. (c - b) : t[i] = b + i - 1
  BY NumbersOf
<1>3. u \in Seq(Int) /\ Len(u) = c - a /\ \A i \in 1 .. (c - a) : u[i] = a + i - 1
  <2>1. a <= c
    OBVIOUS
  <2>q. QED
    BY <2>1, NumbersOf
<1> DEFINE v == s \o t
<1> HIDE DEF s, t, u
<1>4. /\ v \in Seq(Int) /\ Len(v) = Len(s) + Len(t)
      /\ \A i \in 1 .. (Len(s) + Len(t)) : v[i] = IF i <= Len(s) THEN s[i] ELSE t[i - Len(s)]
  <2>1. s \in Seq(Int) /\ t \in Seq(Int)
    BY <1>1, <1>2
  <2>q. QED
    BY <2>1, ConcatOf
<1> HIDE DEF v
<1>5. Len(v) = c - a
  BY <1>1, <1>2, <1>4
<1>6. ASSUME NEW i \in 1 .. (c - a) PROVE v[i] = u[i]
  <2>0. i \in 1 .. (Len(s) + Len(t))
    BY <1>1, <1>2
  <2>1. CASE i <= b - a
    <3>1. v[i] = s[i] /\ i \in 1 .. (b - a)
      BY <1>1, <1>4, <2>0, <2>1
    <3>q. QED
      BY <1>1, <1>3, <3>1
  <2>2. CASE i > b - a
    <3> DEFINE k == i - (b - a)
    <3>1. v[i] = t[k] /\ k \in 1 .. (c - b)
      BY <1>1, <1>2, <1>4, <2>0, <2>2
    <3>2. t[k] = b + k - 1 /\ b + k - 1 = a + i - 1
      BY <1>2, <3>1
    <3>q. QED
      BY <1>3, <3>1, <3>2
  <2>q. QED
    BY <2>1, <2>2
<1>7. v = u
  <2>1. Len(u) = Len(v) /\ \A i \in 1 .. Len(u) : v[i] = u[i]
    BY <1>3, <1>5, <1>6
  <2>q. QED
    BY <1>3, <1>4, <2>1
<1>q. QED
  BY <1>7 DEF v, s, t, u

\* A resampler that is in time: it has put out what its filter put out after the
\* lead-in, and out has the last of it, from e on.
Resamplers ==
  [buffered : Int, fed : Int, received : Int, emitted : Int, skip : Int, out : Seq(Int)]

InTime(rates, r) ==
  /\ r \in Resamplers /\ r.fed \in Nat
  /\ r.emitted = Heard(rates, r.fed)
  /\ r.skip = IF Produced(rates, r.fed) > rates.delay THEN 0 ELSE rates.delay - Produced(rates, r.fed)

HasOut(rates, r, e) ==
  e <= r.emitted /\ r.out = Numbers(rates.delay + e, rates.delay + r.emitted)

\* What the filter has put out before a chunk and after it, and what of that is skipped.
OutBefore(rates, r) == Produced(rates, r.fed)
OutAfter(rates, r) == Produced(rates, r.fed + Chunk)
Skipped(rates, r) == Min({r.skip, OutAfter(rates, r) - OutBefore(rates, r)})

Stepped(r, b, f, s, e, o) ==
  [r EXCEPT !.buffered = b, !.fed = f, !.skip = s, !.emitted = e, !.out = o]

\* A resampler with the fields of a step set is one.
LEMMA PartsOfStep ==
  ASSUME NEW r \in Resamplers, NEW b \in Int, NEW f \in Int, NEW s \in Int, NEW e \in Int,
         NEW o \in Seq(Int)
  PROVE  /\ Stepped(r, b, f, s, e, o) \in Resamplers
         /\ Stepped(r, b, f, s, e, o).buffered = b /\ Stepped(r, b, f, s, e, o).fed = f
         /\ Stepped(r, b, f, s, e, o).received = r.received
         /\ Stepped(r, b, f, s, e, o).skip = s /\ Stepped(r, b, f, s, e, o).emitted = e
         /\ Stepped(r, b, f, s, e, o).out = o
BY DEF Resamplers, Stepped

\* The smaller of two numbers.
LEMMA MinOfTwo ==
  ASSUME NEW a \in Int, NEW b \in Int
  PROVE  Min({a, b}) = IF a <= b THEN a ELSE b
<1> DEFINE m == IF a <= b THEN a ELSE b
<1>1. m \in {a, b} /\ \A y \in {a, b} : m <= y
  OBVIOUS
<1>2. \A x \in {a, b} : (\A y \in {a, b} : x <= y) => x = m
  OBVIOUS
<1> HIDE DEF m
<1>3. Min({a, b}) = m
  BY <1>1, <1>2 DEF Min
<1>q. QED
  BY <1>3 DEF m

\* The filter puts out a whole number of frames.
LEMMA ProducedIn ==
  ASSUME NEW rates \in FileRates, NEW fed \in Int
  PROVE  Produced(rates, fed) \in Int
<1> DEFINE x == fed * rates.to
           q == x \div rates.from
<1>1. rates.from \in Nat \ {0} /\ rates.to \in Nat /\ rates.slack \in Nat
  BY RatesAre
<1>2. x \in Int
  BY <1>1
<1> HIDE DEF x
<1>3. q \in Int
  BY <1>1, <1>2, QuotientIs
<1>4. Produced(rates, fed) = IF q > rates.slack THEN q - rates.slack ELSE 0
  BY DEF Produced, x
<1> HIDE DEF q
<1>q. QED
  BY <1>1, <1>3, <1>4

\* The fields of process_chunk's result.
LEMMA ProcessChunkIs ==
  ASSUME NEW rates \in FileRates, NEW r \in Resamplers
  PROVE  /\ ProcessChunk(rates, r) \in Resamplers
         /\ ProcessChunk(rates, r).buffered = r.buffered - Chunk
         /\ ProcessChunk(rates, r).fed = r.fed + Chunk
         /\ ProcessChunk(rates, r).received = r.received
         /\ ProcessChunk(rates, r).skip = r.skip - Skipped(rates, r)
         /\ ProcessChunk(rates, r).emitted
              = r.emitted + (OutAfter(rates, r) - OutBefore(rates, r) - Skipped(rates, r))
         /\ ProcessChunk(rates, r).out
              = r.out \o Numbers(OutBefore(rates, r) + Skipped(rates, r), OutAfter(rates, r))
<1> DEFINE first == OutBefore(rates, r)
           after == OutAfter(rates, r)
           skip  == Skipped(rates, r)
           b == r.buffered - Chunk
           f == r.fed + Chunk
           s == r.skip - skip
           e == r.emitted + (after - first - skip)
           o == r.out \o Numbers(first + skip, after)
           next == ProcessChunk(rates, r)
<1>1. Chunk \in Nat
  BY RatesAre
<1>2. /\ r.buffered \in Int /\ r.fed \in Int /\ r.received \in Int /\ r.emitted \in Int
      /\ r.skip \in Int /\ r.out \in Seq(Int)
  BY DEF Resamplers
<1>3. first \in Int /\ after \in Int
  <2>1. r.fed \in Int /\ r.fed + Chunk \in Int
    BY <1>1, <1>2
  <2>q. QED
    BY <2>1, ProducedIn DEF OutBefore, OutAfter
<1>4. skip = Min({r.skip, after - first})
  BY DEF Skipped
<1>5. next = [r EXCEPT !.buffered = b, !.fed = f, !.skip = s, !.emitted = e, !.out = o]
  BY Zenon DEF ProcessChunk, OutBefore, OutAfter, Skipped
<1> HIDE DEF first, after, skip, next
<1>6. skip \in Int
  <2>1. after - first \in Int
    BY <1>3
  <2> DEFINE d == after - first
  <2> HIDE DEF d
  <2>2. skip = Min({r.skip, d}) /\ d \in Int
    BY <1>4, <2>1 DEF d
  <2>3. skip = IF r.skip <= d THEN r.skip ELSE d
    BY <1>2, <2>2, MinOfTwo
  <2>q. QED
    BY <1>2, <2>2, <2>3
<1>7. b \in Int /\ f \in Int /\ s \in Int /\ e \in Int
  BY <1>1, <1>2, <1>3, <1>6
<1>8. o \in Seq(Int)
  <2>1. first + skip \in Int
    BY <1>3, <1>6
  <2>2. Numbers(first + skip, after) \in Seq(Int)
    BY <1>3, <2>1, NumbersAre
  <2>q. QED
    BY <1>2, <2>2, ConcatOf
<1> HIDE DEF b, f, s, e, o
<1>9. /\ next \in Resamplers /\ next.buffered = b /\ next.fed = f
      /\ next.received = r.received /\ next.skip = s /\ next.emitted = e /\ next.out = o
  <2>1. next = Stepped(r, b, f, s, e, o)
    BY <1>5, Zenon DEF Stepped
  <2>q. QED
    BY <1>7, <1>8, <2>1, PartsOfStep
<1>q. QED
  BY <1>9, Zenon DEF b, f, s, e, o, first, after, skip, next

\* A resampler in time keeps time.
LEMMA ChunkInTime ==
  ASSUME NEW rates \in FileRates, NEW r, InTime(rates, r), NEW e \in Nat, HasOut(rates, r, e)
  PROVE  /\ InTime(rates, ProcessChunk(rates, r)) /\ HasOut(rates, ProcessChunk(rates, r), e)
         /\ ProcessChunk(rates, r).buffered = r.buffered - Chunk
         /\ ProcessChunk(rates, r).fed = r.fed + Chunk
         /\ ProcessChunk(rates, r).received = r.received
         /\ r.emitted <= ProcessChunk(rates, r).emitted
<1> DEFINE delay == rates.delay
           first == OutBefore(rates, r)
           after == OutAfter(rates, r)
           skip  == Skipped(rates, r)
           next  == ProcessChunk(rates, r)
<1>1. delay \in Nat /\ Chunk \in Nat
  BY RatesAre
<1>2. /\ r.buffered \in Int /\ r.fed \in Nat /\ r.received \in Int /\ r.emitted \in Int
      /\ r.skip \in Int /\ r.out \in Seq(Int) /\ r \in Resamplers
  BY DEF InTime, Resamplers
<1>3. first \in Nat /\ after \in Nat /\ first <= after
  BY <1>1, <1>2, ProducedGrows DEF OutBefore, OutAfter
<1>4. /\ r.emitted = IF first > delay THEN first - delay ELSE 0
      /\ r.skip = IF first > delay THEN 0 ELSE delay - first
  BY Zenon DEF InTime, Heard, OutBefore, first, delay
<1>5. skip = IF r.skip <= after - first THEN r.skip ELSE after - first
  <2> DEFINE d == after - first
  <2>1. d \in Int
    BY <1>3
  <2>2. skip = Min({r.skip, d})
    BY DEF Skipped
  <2> HIDE DEF d
  <2>3. skip = IF r.skip <= d THEN r.skip ELSE d
    BY <1>2, <2>1, <2>2, MinOfTwo
  <2>q. QED
    BY <2>3 DEF d
<1>6. /\ next \in Resamplers
      /\ next.buffered = r.buffered - Chunk /\ next.fed = r.fed + Chunk
      /\ next.received = r.received /\ next.skip = r.skip - skip
      /\ next.emitted = r.emitted + (after - first - skip)
      /\ next.out = r.out \o Numbers(first + skip, after)
  BY <1>2, ProcessChunkIs
<1>7. Produced(rates, next.fed) = after
  BY <1>6 DEF OutAfter
<1>8. Heard(rates, next.fed) = (IF after > delay THEN after - delay ELSE 0)
  BY <1>7, Zenon DEF Heard, delay
<1>9. e <= r.emitted /\ r.out = Numbers(delay + e, delay + r.emitted)
  BY DEF HasOut
<1> HIDE DEF delay, first, after, skip, next
<1>10. /\ next.emitted = IF after > delay THEN after - delay ELSE 0
       /\ next.skip = IF after > delay THEN 0 ELSE delay - after
       /\ r.emitted <= next.emitted /\ next.fed \in Nat /\ next.emitted \in Nat
  BY <1>1, <1>2, <1>3, <1>4, <1>5, <1>6
<1>11. next.out = Numbers(delay + e, delay + next.emitted)
  <2>1. CASE after <= delay
    <3>1. first + skip = after /\ next.emitted = r.emitted
      BY <1>1, <1>2, <1>3, <1>4, <1>5, <1>6, <2>1
    <3>2. Numbers(after, after) = << >>
      <4>1. after \in Int /\ after <= after
        BY <1>3
      <4>q. QED
        BY <4>1, NumbersAre
    <3>3. next.out = r.out \o << >>
      BY <1>6, <3>1, <3>2
    <3>q. QED
      BY <1>2, <1>9, <3>1, <3>3
  <2>2. CASE after > delay
    <3>1. first + skip = delay + r.emitted /\ after = delay + next.emitted
      BY <1>1, <1>2, <1>3, <1>4, <1>5, <1>6, <1>10, <2>2
    <3> DEFINE a == delay + e
               b == delay + r.emitted
    <3>2. a \in Int /\ b \in Int /\ a <= b /\ b <= after /\ after \in Int
      BY <1>1, <1>2, <1>3, <1>9, <1>10, <3>1
    <3>3. r.out = Numbers(a, b) /\ next.out = r.out \o Numbers(b, after)
      BY <1>6, <1>9, <3>1
    <3> HIDE DEF a, b
    <3>4. Numbers(a, b) \o Numbers(b, after) = Numbers(a, after)
      BY <3>2, NumbersJoin
    <3>5. next.out = Numbers(a, after)
      BY <3>3, <3>4
    <3>q. QED
      BY <3>1, <3>5 DEF a
  <2>q. QED
    BY <1>1, <1>3, <2>1, <2>2
<1>12. InTime(rates, next)
  BY <1>6, <1>7, <1>8, <1>10, Zenon DEF InTime, delay
<1>13. e <= next.emitted
  BY <1>2, <1>9, <1>10
<1>14. HasOut(rates, next, e)
  BY <1>11, <1>13, Zenon DEF HasOut, delay
<1>q. QED
  BY <1>6, <1>10, <1>12, <1>14 DEF next

\* The resamplers of the steps that take all whole chunks.
IsChunking(g, rates, r, count) ==
  g = [i \in 0 .. count |-> IF i = 0 THEN r ELSE ProcessChunk(rates, g[i - 1])]
Chunking(rates, r, count) == CHOOSE g : IsChunking(g, rates, r, count)

\* WholeChunks is the last of them.
LEMMA WholeUnfolded ==
  ASSUME NEW rates, NEW r
  PROVE  WholeChunks(rates, r) = Chunking(rates, r, r.buffered \div Chunk)[r.buffered \div Chunk]
BY DEF WholeChunks, IsChunking, Chunking

\* There are such resamplers for any number of chunks.
LEMMA ChunkingExists ==
  ASSUME NEW rates \in FileRates, NEW r \in Resamplers, NEW count \in Nat
  PROVE  IsChunking(Chunking(rates, r, count), rates, r, count)
<1> DEFINE st == [q \in Resamplers |-> ProcessChunk(rates, q)]
<1>1. st \in [Resamplers -> Resamplers]
  BY ProcessChunkIs
<1>2. \A q \in Resamplers : st[q] = ProcessChunk(rates, q)
  OBVIOUS
<1> HIDE DEF st
<1>3. PICK a : IsSteps(a, count, Resamplers, r, st)
  BY <1>1, StepsExist
<1>4. /\ a \in [0 .. count -> Resamplers] /\ a[0] = r
      /\ \A k \in 1 .. count : a[k] = st[a[k - 1]]
  BY <1>3 DEF IsSteps
<1>5. ASSUME NEW i \in 0 .. count
      PROVE  a[i] = IF i = 0 THEN r ELSE ProcessChunk(rates, a[i - 1])
  <2>1. CASE i = 0
    BY <1>4, <2>1
  <2>2. CASE i # 0
    <3>1. i \in 1 .. count /\ i - 1 \in 0 .. count
      BY <2>2
    <3>2. a[i] = st[a[i - 1]] /\ a[i - 1] \in Resamplers
      BY <1>4, <3>1
    <3>q. QED
      BY <1>2, <2>2, <3>2
  <2>q. QED
    BY <2>1, <2>2
<1>6. a = [i \in 0 .. count |-> a[i]]
  BY <1>4
<1>7. IsChunking(a, rates, r, count)
  BY <1>5, <1>6 DEF IsChunking
<1>q. QED
  BY <1>7 DEF Chunking

\* All whole chunks: the resampler stays in time and less than a chunk is left.
LEMMA WholeChunksAre ==
  ASSUME NEW rates \in FileRates, NEW r, InTime(rates, r), r.buffered \in Nat,
         NEW e \in Nat, HasOut(rates, r, e)
  PROVE  /\ InTime(rates, WholeChunks(rates, r)) /\ HasOut(rates, WholeChunks(rates, r), e)
         /\ WholeChunks(rates, r).buffered \in 0 .. (Chunk - 1)
         /\ WholeChunks(rates, r).fed + WholeChunks(rates, r).buffered = r.fed + r.buffered
         /\ WholeChunks(rates, r).received = r.received
         /\ r.emitted <= WholeChunks(rates, r).emitted
<1> DEFINE count == r.buffered \div Chunk
           g == Chunking(rates, r, count)
           S == {k \in 0 .. count :
                  /\ InTime(rates, g[k]) /\ HasOut(rates, g[k], e)
                  /\ g[k].buffered = r.buffered - k * Chunk /\ g[k].fed = r.fed + k * Chunk
                  /\ g[k].received = r.received /\ r.emitted <= g[k].emitted}
<1>1. Chunk \in Nat \ {0} /\ r \in Resamplers /\ r.emitted \in Int /\ r.fed \in Nat
  BY RatesAre DEF InTime, Resamplers
<1>2. count \in Int /\ count * Chunk <= r.buffered /\ r.buffered < count * Chunk + Chunk
  <2>1. r.buffered \in Int
    OBVIOUS
  <2>q. QED
    BY <1>1, <2>1, QuotientIs
<1>3. count \in Nat
  <2>1. 0 * Chunk <= r.buffered
    BY <1>1
  <2>2. 0 <= count
    BY <1>1, <2>1, QuotientGreatest
  <2>q. QED
    BY <1>2, <2>2
<1>4. WholeChunks(rates, r) = g[count]
  BY WholeUnfolded
<1> HIDE DEF count
<1>5. IsChunking(g, rates, r, count)
  BY <1>1, <1>3, ChunkingExists
<1> HIDE DEF g
<1>6. g[0] = r
  BY <1>3, <1>5 DEF IsChunking
<1>7. ASSUME NEW k \in 1 .. count PROVE g[k] = ProcessChunk(rates, g[k - 1])
  <2>1. k \in 0 .. count /\ k # 0
    BY <1>3
  <2>q. QED
    BY <1>5, <2>1 DEF IsChunking
<1>8. 0 \in S
  <2>1. 0 * Chunk = 0 /\ 0 \in 0 .. count
    BY <1>1, <1>3
  <2>q. QED
    BY <1>1, <1>6, <2>1
<1>9. ASSUME NEW k \in 1 .. count, k - 1 \in S PROVE k \in S
  <2> DEFINE q == g[k - 1]
  <2>1. /\ InTime(rates, q) /\ HasOut(rates, q, e) /\ q.buffered = r.buffered - (k - 1) * Chunk
        /\ q.fed = r.fed + (k - 1) * Chunk /\ q.received = r.received /\ r.emitted <= q.emitted
    BY <1>9
  <2> HIDE DEF q
  <2> DEFINE p == ProcessChunk(rates, q)
  <2>2. /\ InTime(rates, p) /\ HasOut(rates, p, e)
        /\ p.buffered = q.buffered - Chunk /\ p.fed = q.fed + Chunk
        /\ p.received = q.received /\ q.emitted <= p.emitted
    BY <2>1, ChunkInTime
  <2>3. g[k] = p
    BY <1>7 DEF q
  <2>4. q.emitted \in Int /\ p.emitted \in Int
    BY <2>1, <2>2 DEF InTime, Resamplers
  <2> HIDE DEF p
  <2>5. (k - 1) * Chunk + Chunk = k * Chunk /\ k * Chunk \in Int /\ (k - 1) * Chunk \in Int
    BY <1>1
  <2>6. p.buffered = r.buffered - k * Chunk /\ p.fed = r.fed + k * Chunk /\ r.emitted <= p.emitted
    BY <1>1, <2>1, <2>2, <2>4, <2>5
  <2>7. k \in 0 .. count
    BY <1>3
  <2>q. QED
    BY <2>1, <2>2, <2>3, <2>6, <2>7
<1> HIDE DEF S
<1>10. count \in S
  <2>1. \A k \in 0 .. count : k \in S
    BY <1>3, <1>8, <1>9, AllUpTo
  <2>q. QED
    BY <1>3, <2>1
<1> DEFINE w == g[count]
<1>11. /\ InTime(rates, w) /\ HasOut(rates, w, e)
       /\ w.buffered = r.buffered - count * Chunk /\ w.fed = r.fed + count * Chunk
       /\ w.received = r.received /\ r.emitted <= w.emitted
  BY <1>10 DEF S
<1> HIDE DEF w
<1>12. w.buffered \in 0 .. (Chunk - 1) /\ w.fed + w.buffered = r.fed + r.buffered
  <2>1. count * Chunk \in Int
    BY <1>1, <1>3
  <2>q. QED
    BY <1>1, <1>2, <1>11, <2>1
<1>q. QED
  BY <1>4, <1>11, <1>12 DEF w

\* The resamplers of a flush that drains.
IsDraining(g, rates, r, expected) ==
  g = [i \in 0 .. DrainLimit + 1 |->
        IF i = 0 THEN WholeChunks(rates, [r EXCEPT !.out = << >>])
        ELSE Drain(rates, g[i - 1], expected)]
Draining(rates, r, expected) == CHOOSE g : IsDraining(g, rates, r, expected)
Drained(rates, r) == Draining(rates, r, Expected(rates, r.received))[DrainLimit + 1]
Excess(rates, r) == Max({Drained(rates, r).emitted - Expected(rates, r.received), 0})
Keep(rates, r) == Max({Len(Drained(rates, r).out) - Excess(rates, r), 0})

\* Flush is what is kept of the last of them.
LEMMA FlushUnfolded ==
  ASSUME NEW rates, NEW r
  PROVE  Flush(rates, r)
           = [Drained(rates, r) EXCEPT !.out = SubSeq(@, 1, Keep(rates, r)),
                                       !.emitted = @ - Excess(rates, r)]
BY Zenon DEF Flush, IsDraining, Draining, Drained, Excess, Keep

\* One drain keeps a resampler in time, and fills it or feeds it a chunk.
LEMMA DrainInTime ==
  ASSUME NEW rates \in FileRates, NEW q, InTime(rates, q), NEW e \in Nat, HasOut(rates, q, e),
         NEW expected \in Int
  PROVE  /\ InTime(rates, Drain(rates, q, expected)) /\ HasOut(rates, Drain(rates, q, expected), e)
         /\ IF q.emitted >= expected THEN Drain(rates, q, expected) = q
            ELSE Drain(rates, q, expected).fed = q.fed + Chunk
<1>1. q \in Resamplers /\ q.emitted \in Int /\ Chunk \in Nat
  BY RatesAre DEF InTime, Resamplers
<1>2. CASE q.emitted >= expected
  <2>1. ~(q.emitted < expected)
    BY <1>1, <1>2
  <2>2. Drain(rates, q, expected) = q
    BY <2>1 DEF Drain
  <2>q. QED
    BY <1>2, <2>2
<1>3. CASE ~(q.emitted >= expected)
  <2> DEFINE full == [q EXCEPT !.buffered = Chunk]
  <2>1. Drain(rates, q, expected) = ProcessChunk(rates, full)
    BY <1>1, <1>3 DEF Drain
  <2>2. /\ full \in Resamplers /\ full.fed = q.fed /\ full.emitted = q.emitted
        /\ full.skip = q.skip /\ full.out = q.out
    BY <1>1 DEF Resamplers
  <2> HIDE DEF full
  <2>3. InTime(rates, full) /\ HasOut(rates, full, e)
    BY <2>2 DEF InTime, HasOut
  <2>4. /\ InTime(rates, ProcessChunk(rates, full)) /\ HasOut(rates, ProcessChunk(rates, full), e)
        /\ ProcessChunk(rates, full).fed = full.fed + Chunk
    BY <2>3, ChunkInTime
  <2>q. QED
    BY <1>3, <2>1, <2>2, <2>4
<1>q. QED
  BY <1>2, <1>3

\* A drain leaves a resampler.
LEMMA DrainType ==
  ASSUME NEW rates \in FileRates, NEW q \in Resamplers, NEW expected
  PROVE  Drain(rates, q, expected) \in Resamplers
<1>1. Chunk \in Int
  BY RatesAre
<1>2. [q EXCEPT !.buffered = Chunk] \in Resamplers
  BY <1>1 DEF Resamplers
<1>3. ProcessChunk(rates, [q EXCEPT !.buffered = Chunk]) \in Resamplers
  BY <1>2, ProcessChunkIs
<1>q. QED
  BY <1>3 DEF Drain

\* There are such resamplers for any limit.
LEMMA DrainingExists ==
  ASSUME NEW rates \in FileRates, NEW r, NEW expected,
         WholeChunks(rates, [r EXCEPT !.out = << >>]) \in Resamplers
  PROVE  IsDraining(Draining(rates, r, expected), rates, r, expected)
<1> DEFINE base == WholeChunks(rates, [r EXCEPT !.out = << >>])
           st == [q \in Resamplers |-> Drain(rates, q, expected)]
           n == DrainLimit + 1
<1>0. n \in Nat
  BY RatesAre
<1>1. st \in [Resamplers -> Resamplers]
  BY DrainType
<1>2. \A q \in Resamplers : st[q] = Drain(rates, q, expected)
  OBVIOUS
<1> HIDE DEF st, base, n
<1>3. PICK a : IsSteps(a, n, Resamplers, base, st)
  <2>1. base \in Resamplers
    BY DEF base
  <2>q. QED
    BY <1>0, <1>1, <2>1, StepsExist
<1>4. /\ a \in [0 .. n -> Resamplers] /\ a[0] = base
      /\ \A k \in 1 .. n : a[k] = st[a[k - 1]]
  BY <1>3 DEF IsSteps
<1>5. ASSUME NEW i \in 0 .. n
      PROVE  a[i] = IF i = 0 THEN base ELSE Drain(rates, a[i - 1], expected)
  <2>1. CASE i = 0
    BY <1>4, <2>1
  <2>2. CASE i # 0
    <3>1. i \in 1 .. n /\ i - 1 \in 0 .. n
      BY <1>0, <2>2
    <3>2. a[i] = st[a[i - 1]] /\ a[i - 1] \in Resamplers
      BY <1>4, <3>1
    <3>q. QED
      BY <1>2, <2>2, <3>2
  <2>q. QED
    BY <2>1, <2>2
<1>6. a = [i \in 0 .. n |-> a[i]]
  BY <1>4
<1>7. IsDraining(a, rates, r, expected)
  BY <1>5, <1>6 DEF IsDraining, n, base
<1>q. QED
  BY <1>7 DEF Draining

\* A natural number is the greater of itself and nothing.
LEMMA MaxWithZero ==
  ASSUME NEW a \in Nat
  PROVE  Max({a, 0}) = a
<1>1. a \in {a, 0} /\ \A y \in {a, 0} : a >= y
  OBVIOUS
<1>2. \A x \in {a, 0} : (\A y \in {a, 0} : x >= y) => x = a
  OBVIOUS
<1>q. QED
  BY <1>1, <1>2 DEF Max

\* Handing out what is there leaves the rest of a resampler.
LEMMA EmptiedIs ==
  ASSUME NEW r \in Resamplers
  PROVE  /\ [r EXCEPT !.out = << >>] \in Resamplers
         /\ [r EXCEPT !.out = << >>].fed = r.fed
         /\ [r EXCEPT !.out = << >>].emitted = r.emitted
         /\ [r EXCEPT !.out = << >>].skip = r.skip
         /\ [r EXCEPT !.out = << >>].buffered = r.buffered
         /\ [r EXCEPT !.out = << >>].received = r.received
         /\ [r EXCEPT !.out = << >>].out = << >>
<1>1. << >> \in Seq(Int)
  OBVIOUS
<1>q. QED
  BY <1>1 DEF Resamplers

\* A flush puts out the rest of the frames that are expected, and no more.
LEMMA FlushIs ==
  ASSUME NEW rates \in FileRates, ~Same(rates), NEW r, InTime(rates, r),
         r.buffered \in 0 .. (Chunk - 1), r.received \in Nat, r.fed + r.buffered = r.received
  PROVE  /\ r.emitted \in Nat /\ Expected(rates, r.received) \in Nat
         /\ r.emitted <= Expected(rates, r.received)
         /\ Flush(rates, r).out
              = Numbers(rates.delay + r.emitted, rates.delay + Expected(rates, r.received))
<1> DEFINE e == r.emitted
           x == Expected(rates, r.received)
           delay == rates.delay
           empty == [r EXCEPT !.out = << >>]
           w == WholeChunks(rates, empty)
           g == Draining(rates, r, x)
           n == DrainLimit + 1
           S == {k \in 0 .. n : /\ InTime(rates, g[k]) /\ HasOut(rates, g[k], e)
                                /\ g[k].emitted >= x \/ g[k].fed = w.fed + k * Chunk}
<1>1. /\ r \in Resamplers /\ r.fed \in Nat /\ e = Heard(rates, r.fed)
      /\ Chunk \in Nat \ {0} /\ DrainLimit \in Nat /\ delay \in Nat /\ r.buffered \in Nat
  BY RatesAre DEF InTime
<1>2. e \in Nat /\ x \in Nat /\ e <= x
  <2>1. r.fed <= r.received
    BY <1>1
  <2>q. QED
    BY <1>1, <2>1, HeardExpected
<1>3. /\ empty \in Resamplers /\ empty.fed = r.fed /\ empty.emitted = e /\ empty.skip = r.skip
      /\ empty.buffered = r.buffered /\ empty.received = r.received /\ empty.out = << >>
  BY <1>1, EmptiedIs
<1> HIDE DEF e, x, delay, empty
<1>4. InTime(rates, empty) /\ HasOut(rates, empty, e)
  <2>1. Numbers(delay + e, delay + e) = << >>
    <3>1. delay + e \in Int /\ delay + e <= delay + e
      BY <1>1, <1>2
    <3>q. QED
      BY <3>1, NumbersAre
  <2>2. HasOut(rates, empty, e)
    BY <1>2, <1>3, <2>1 DEF HasOut, delay
  <2>3. InTime(rates, empty)
    BY <1>3 DEF InTime, e
  <2>q. QED
    BY <2>2, <2>3
<1>5. /\ InTime(rates, w) /\ HasOut(rates, w, e) /\ w.buffered \in 0 .. (Chunk - 1)
      /\ w.fed + w.buffered = r.received
  <2>1. empty.buffered \in Nat
    BY <1>1, <1>3
  <2>q. QED
    BY <1>2, <1>3, <1>4, <2>1, WholeChunksAre
<1>6. w \in Resamplers /\ w.fed \in Nat
  BY <1>5 DEF InTime
<1>7. IsDraining(g, rates, r, x)
  BY <1>6, DrainingExists DEF empty
<1> HIDE DEF g, w, n
<1>8. g[0] = w /\ \A k \in 1 .. n : g[k] = Drain(rates, g[k - 1], x)
  <2>1. n \in Nat
    BY <1>1 DEF n
  <2>2. /\ 0 \in 0 .. n /\ \A k \in 1 .. n : k \in 0 .. n /\ k # 0
    BY <2>1
  <2>q. QED
    BY <1>7, <2>2 DEF IsDraining, w, n, empty
<1>9. n \in Nat
  BY <1>1 DEF n
<1>10. 0 \in S
  <2>1. 0 * Chunk = 0 /\ 0 \in 0 .. n /\ w.fed + 0 = w.fed
    BY <1>1, <1>6, <1>9
  <2>q. QED
    BY <1>5, <1>8, <2>1
<1>11. ASSUME NEW k \in 1 .. n, k - 1 \in S PROVE k \in S
  <2> DEFINE q == g[k - 1]
             d == Drain(rates, q, x)
  <2>1. /\ InTime(rates, q) /\ HasOut(rates, q, e)
        /\ q.emitted >= x \/ q.fed = w.fed + (k - 1) * Chunk
    BY <1>11
  <2>2. g[k] = d
    BY <1>8
  <2> HIDE DEF q
  <2>3. /\ InTime(rates, d) /\ HasOut(rates, d, e)
        /\ IF q.emitted >= x THEN d = q ELSE d.fed = q.fed + Chunk
    BY <1>2, <2>1, DrainInTime
  <2> HIDE DEF d
  <2>4. (k - 1) * Chunk + Chunk = k * Chunk /\ (k - 1) * Chunk \in Int /\ k \in 0 .. n
    BY <1>1, <1>9
  <2>5. d.emitted >= x \/ d.fed = w.fed + k * Chunk
    BY <1>1, <1>6, <2>1, <2>3, <2>4
  <2>q. QED
    BY <2>2, <2>3, <2>4, <2>5
<1> HIDE DEF S
<1>12. n \in S
  <2>1. \A k \in 0 .. n : k \in S
    BY <1>9, <1>10, <1>11, AllUpTo
  <2>q. QED
    BY <1>9, <2>1
<1> DEFINE last == Drained(rates, r)
           full == last.emitted
<1>13. last = g[n]
  BY DEF Drained, g, n, x
<1> HIDE DEF last
<1>14. /\ InTime(rates, last) /\ HasOut(rates, last, e)
       /\ last.emitted >= x \/ last.fed = w.fed + n * Chunk
  BY <1>12, <1>13 DEF S
<1>15. last \in Resamplers /\ full \in Int /\ last.out \in Seq(Int)
  BY <1>14 DEF InTime, Resamplers
<1>16. full >= x
  <2>1. ASSUME last.fed = w.fed + n * Chunk PROVE last.emitted >= x
    <3>1. r.received < w.fed + Chunk
      BY <1>1, <1>5, <1>6
    <3>2. x <= Heard(rates, last.fed)
      BY <1>6, <2>1, <3>1, DrainedEnough DEF n, x
    <3>3. last.emitted = Heard(rates, last.fed)
      BY <1>14 DEF InTime
    <3>q. QED
      BY <1>2, <1>15, <3>2, <3>3
  <2>q. QED
    BY <1>14, <2>1
<1> HIDE DEF full
<1> DEFINE excess == full - x
           keep == x - e
<1>17. last.out = Numbers(delay + e, delay + full) /\ Len(last.out) = full - e
  <2>1. last.out = Numbers(delay + e, delay + full)
    BY <1>14 DEF HasOut, delay, full
  <2>2. delay + e \in Int /\ delay + full \in Int /\ delay + e <= delay + full
    BY <1>1, <1>2, <1>15, <1>16
  <2>3. Len(Numbers(delay + e, delay + full)) = (delay + full) - (delay + e)
    BY <2>2, NumbersOf
  <2>q. QED
    BY <1>1, <1>2, <1>15, <2>1, <2>3
<1>18. excess \in Nat /\ keep \in Nat
  BY <1>2, <1>15, <1>16
<1>19. Excess(rates, r) = excess
  <2>1. Excess(rates, r) = Max({excess, 0})
    BY DEF Excess, last, full, x
  <2> HIDE DEF excess
  <2>q. QED
    BY <1>18, <2>1, MaxWithZero
<1>20. Keep(rates, r) = keep
  <2>1. Len(last.out) - excess = keep
    BY <1>2, <1>15, <1>17
  <2>2. Keep(rates, r) = Max({Len(last.out) - excess, 0})
    BY <1>19, Zenon DEF Keep, last
  <2> HIDE DEF keep, excess
  <2>3. Keep(rates, r) = Max({keep, 0})
    BY <2>1, <2>2
  <2>q. QED
    BY <1>18, <2>3, MaxWithZero
<1>21. Flush(rates, r).out = SubSeq(last.out, 1, keep)
  <2>1. Flush(rates, r) = [last EXCEPT !.out = SubSeq(@, 1, keep), !.emitted = @ - excess]
    BY <1>19, <1>20, FlushUnfolded, Zenon DEF last
  <2> HIDE DEF keep, excess
  <2>q. QED
    BY <1>15, <2>1 DEF Resamplers
<1>22. SubSeq(last.out, 1, keep) = Numbers(delay + e, delay + x)
  <2> DEFINE a == delay + e
             b == delay + full
             c == delay + x
             s == Numbers(a, b)
             t == Numbers(a, c)
             u == SubSeq(s, 1, c - a)
  <2>1. a \in Int /\ b \in Int /\ c \in Int /\ a <= c /\ c <= b /\ c - a = keep
    BY <1>1, <1>2, <1>15, <1>16
  <2>2. last.out = s
    BY <1>17
  <2> HIDE DEF a, b, c, keep
  <2>3. s \in Seq(Int) /\ Len(s) = b - a /\ \A i \in 1 .. (b - a) : s[i] = a + i - 1
    <3>1. a <= b
      BY <2>1
    <3>q. QED
      BY <2>1, <3>1, NumbersOf
  <2>4. t \in Seq(Int) /\ Len(t) = c - a /\ \A i \in 1 .. (c - a) : t[i] = a + i - 1
    BY <2>1, NumbersOf
  <2> HIDE DEF s, t
  <2> DEFINE m == c - a
  <2>5. m \in Nat /\ m <= Len(s)
    BY <2>1, <2>3
  <2> HIDE DEF m
  <2>6. /\ SubSeq(s, 1, m) \in Seq(Int) /\ Len(SubSeq(s, 1, m)) = m
        /\ \A i \in 1 .. m : SubSeq(s, 1, m)[i] = s[i]
    BY <2>3, <2>5
  <2> DEFINE v == SubSeq(s, 1, m)
  <2> HIDE DEF v
  <2>7. \A i \in 1 .. m : i \in 1 .. (b - a) /\ i \in 1 .. (c - a)
    BY <2>1 DEF m
  <2>8. v \in Seq(Int) /\ Len(v) = Len(t) /\ \A i \in 1 .. Len(t) : v[i] = t[i]
    BY <2>3, <2>4, <2>6, <2>7 DEF v, m
  <2>9. v = t
    BY <2>4, <2>8
  <2>q. QED
    BY <2>1, <2>2, <2>9 DEF v, m, t, a, c
<1>q. QED
  BY <1>2, <1>21, <1>22 DEF e, x, delay

\* Chunks that make a run: each begins where the one before ended, none is empty, and
\* total frames follow the lead-in.
Ends(d, y, lead, total) ==
  /\ d \in [0 .. Len(y) -> Nat] /\ d[0] = 0 /\ d[Len(y)] = total
  /\ \A k \in 1 .. Len(y) : d[k - 1] < d[k] /\ y[k] = Numbers(lead + d[k - 1], lead + d[k])

Run(y, lead, total) == y \in Seq(Seq(Int)) /\ \E d : Ends(d, y, lead, total)

\* Nothing is a run of nothing.
LEMMA NoRun ==
  ASSUME NEW lead \in Nat
  PROVE  Run(<< >>, lead, 0)
<1> DEFINE d == [k \in 0 .. 0 |-> 0]
           y == << >>
<1>1. y \in Seq(Seq(Int)) /\ Len(y) = 0
  OBVIOUS
<1> HIDE DEF y
<1>2. d \in [0 .. Len(y) -> Nat] /\ d[0] = 0 /\ d[Len(y)] = 0 /\ 1 .. Len(y) = {}
  BY <1>1
<1> HIDE DEF d
<1>3. Ends(d, y, lead, 0)
  BY <1>2 DEF Ends
<1>4. Run(y, lead, 0)
  BY <1>1, <1>3 DEF Run
<1>q. QED
  BY <1>4 DEF y

\* What is yielded next carries the run on.
LEMMA RunGoesOn ==
  ASSUME NEW lead \in Nat, NEW t \in Nat, NEW u \in Nat, t < u, NEW y, Run(y, lead, t)
  PROVE  Run(Append(y, Numbers(lead + t, lead + u)), lead, u)
<1> DEFINE n == Len(y)
           s == Numbers(lead + t, lead + u)
           z == Append(y, s)
<1>1. y \in Seq(Seq(Int)) /\ n \in Nat
  BY DEF Run
<1>2. PICK d : Ends(d, y, lead, t)
  BY DEF Run
<1>3. /\ d \in [0 .. n -> Nat] /\ d[0] = 0 /\ d[n] = t
      /\ \A k \in 1 .. n : d[k - 1] < d[k] /\ y[k] = Numbers(lead + d[k - 1], lead + d[k])
  BY <1>2 DEF Ends
<1>4. s \in Seq(Int)
  <2>1. lead + t \in Int /\ lead + u \in Int
    OBVIOUS
  <2>q. QED
    BY <2>1, NumbersAre
<1> HIDE DEF s
<1>5. /\ z \in Seq(Seq(Int)) /\ Len(z) = n + 1 /\ z[n + 1] = s
      /\ \A k \in 1 .. n : z[k] = y[k]
  BY <1>1, <1>4
<1> HIDE DEF z, n
<1> DEFINE c == [k \in 0 .. n + 1 |-> IF k = n + 1 THEN u ELSE d[k]]
<1>6. /\ c \in [0 .. n + 1 -> Nat] /\ c[0] = 0 /\ c[n + 1] = u
      /\ \A k \in 0 .. n : c[k] = d[k]
  BY <1>1, <1>3
<1> HIDE DEF c
<1>7. ASSUME NEW k \in 1 .. (n + 1)
      PROVE  c[k - 1] < c[k] /\ z[k] = Numbers(lead + c[k - 1], lead + c[k])
  <2>1. CASE k = n + 1
    <3>1. c[k - 1] = t /\ c[k] = u /\ z[k] = s
      <4>1. k - 1 = n /\ n \in 0 .. n
        BY <1>1, <2>1
      <4>q. QED
        BY <1>3, <1>5, <1>6, <2>1, <4>1
    <3>q. QED
      BY <3>1 DEF s
  <2>2. CASE k # n + 1
    <3>1. k \in 1 .. n /\ k \in 0 .. n /\ k - 1 \in 0 .. n
      BY <1>1, <2>2
    <3>2. c[k - 1] = d[k - 1] /\ c[k] = d[k] /\ z[k] = y[k]
      BY <1>5, <1>6, <3>1
    <3>3. d[k - 1] < d[k] /\ y[k] = Numbers(lead + d[k - 1], lead + d[k])
      BY <1>3, <3>1
    <3>q. QED
      BY <3>2, <3>3
  <2>q. QED
    BY <2>1, <2>2
<1>8. Ends(c, z, lead, u)
  BY <1>5, <1>6, <1>7 DEF Ends
<1>9. Run(z, lead, u)
  BY <1>5, <1>8 DEF Run
<1>q. QED
  BY <1>9 DEF z, s

\* A stream yields what there is.
LEMMA YieldRun ==
  ASSUME NEW lead \in Nat, NEW t \in Nat, NEW u \in Nat, t <= u, NEW y, Run(y, lead, t),
         NEW s, s = Numbers(lead + t, lead + u)
  PROVE  Run(IF s = << >> THEN y ELSE Append(y, s), lead, u)
<1>1. CASE t = u
  <2>1. lead + t \in Int /\ lead + u <= lead + t
    BY <1>1
  <2>2. s = << >>
    BY <1>1, <2>1, NumbersAre
  <2>q. QED
    BY <1>1, <2>2
<1>2. CASE t < u
  <2>1. lead + t \in Int /\ lead + u \in Int /\ lead + t <= lead + u
    OBVIOUS
  <2>2. Len(s) = (lead + u) - (lead + t)
    BY <2>1, NumbersOf
  <2>3. s # << >>
    BY <1>2, <2>2
  <2>4. Run(Append(y, s), lead, u)
    BY <1>2, RunGoesOn
  <2>q. QED
    BY <2>3, <2>4
<1>q. QED
  BY <1>1, <1>2

\* The function by which a sequence of sequences is flattened.
IsFlattening(g, y) ==
  g = [i \in 1 .. Len(y) |-> IF i = 1 THEN y[i] ELSE g[i - 1] \o y[i]]
Flattening(y) == CHOOSE g : IsFlattening(g, y)

\* FlattenSeq is the last value of such a function.
LEMMA FlattenUnfolded ==
  ASSUME NEW y
  PROVE  FlattenSeq(y) = IF Len(y) = 0 THEN y ELSE Flattening(y)[Len(y)]
BY DEF FlattenSeq, IsFlattening, Flattening

\* A run is heard as one row of frames.
LEMMA RunIsHeard ==
  ASSUME NEW lead \in Nat, NEW total \in Nat, NEW y, Run(y, lead, total)
  PROVE  /\ FlattenSeq(y) = Numbers(lead, lead + total)
         /\ \A k \in DOMAIN y : y[k] # << >>
<1> DEFINE n == Len(y)
           w(k) == Numbers(lead, lead + k)
<1>1. y \in Seq(Seq(Int)) /\ n \in Nat /\ DOMAIN y = 1 .. n
  BY DEF Run
<1>2. PICK d : Ends(d, y, lead, total)
  BY DEF Run
<1>3. /\ d \in [0 .. n -> Nat] /\ d[0] = 0 /\ d[n] = total
      /\ \A k \in 1 .. n : d[k - 1] < d[k] /\ y[k] = Numbers(lead + d[k - 1], lead + d[k])
  BY <1>2 DEF Ends
<1> HIDE DEF n
<1>4. ASSUME NEW k \in 1 .. n
      PROVE  /\ k - 1 \in 0 .. n /\ k \in 0 .. n /\ d[k - 1] \in Nat /\ d[k] \in Nat
             /\ d[k - 1] < d[k] /\ y[k] = Numbers(lead + d[k - 1], lead + d[k])
  <2>1. k - 1 \in 0 .. n /\ k \in 0 .. n
    BY <1>1
  <2>q. QED
    BY <1>3, <2>1
<1>5. ASSUME NEW k \in 1 .. n PROVE y[k] # << >>
  <2> DEFINE a == lead + d[k - 1]
             b == lead + d[k]
  <2>1. a \in Int /\ b \in Int /\ a <= b /\ b - a > 0 /\ y[k] = Numbers(a, b)
    BY <1>4
  <2> HIDE DEF a, b
  <2>2. Len(y[k]) = b - a
    BY <2>1, NumbersOf
  <2>q. QED
    BY <2>1, <2>2
<1>6. ASSUME NEW k \in 1 .. n
      PROVE  w(d[k]) = IF k = 1 THEN y[k] ELSE w(d[k - 1]) \o y[k]
  <2> DEFINE a == lead + d[k - 1]
             b == lead + d[k]
  <2>1. lead \in Int /\ a \in Int /\ b \in Int /\ lead <= a /\ a <= b /\ y[k] = Numbers(a, b)
    BY <1>4
  <2>2. CASE k = 1
    <3>1. k - 1 = 0
      BY <2>2
    <3>2. a = lead
      BY <1>3, <3>1
    <3>q. QED
      BY <2>1, <2>2, <3>2
  <2>3. CASE k # 1
    <3> HIDE DEF a, b
    <3>1. Numbers(lead, a) \o Numbers(a, b) = Numbers(lead, b)
      BY <2>1, NumbersJoin
    <3>q. QED
      BY <2>1, <2>3, <3>1 DEF a, b
  <2>q. QED
    BY <2>2, <2>3
<1> DEFINE f == [k \in 1 .. n |-> w(d[k])]
<1>7. IsFlattening(f, y)
  <2>1. ASSUME NEW k \in 1 .. n
        PROVE  f[k] = IF k = 1 THEN y[k] ELSE f[k - 1] \o y[k]
    <3>1. CASE k = 1
      BY <1>6, <3>1
    <3>2. CASE k # 1
      <4>1. k - 1 \in 1 .. n
        BY <1>1, <3>2
      <4> HIDE DEF w
      <4>2. f[k] = w(d[k]) /\ f[k - 1] = w(d[k - 1])
        BY <4>1
      <4>q. QED
        BY <1>6, <3>2, <4>2
    <3>q. QED
      BY <3>1, <3>2
  <2>2. f = [k \in 1 .. n |-> f[k]]
    OBVIOUS
  <2> HIDE DEF f
  <2>q. QED
    BY <2>1, <2>2 DEF IsFlattening, n
<1> DEFINE g == Flattening(y)
<1>8. IsFlattening(g, y)
  BY <1>7 DEF Flattening
<1> HIDE DEF f, g, w
<1>9. \A k \in 1 .. n : g[k] = IF k = 1 THEN y[k] ELSE g[k - 1] \o y[k]
  BY <1>8 DEF IsFlattening, n
<1> DEFINE S == {k \in 0 .. n : k = 0 \/ g[k] = w(d[k])}
<1>10. 0 \in S
  BY <1>1
<1>11. ASSUME NEW k \in 1 .. n, k - 1 \in S PROVE k \in S
  <2>1. k \in 0 .. n
    BY <1>1
  <2>2. CASE k = 1
    <3>1. g[k] = y[k] /\ w(d[k]) = y[k]
      BY <1>6, <1>9, <2>2
    <3>q. QED
      BY <2>1, <3>1
  <2>3. CASE k # 1
    <3>1. k - 1 # 0
      BY <2>3
    <3>2. g[k - 1] = w(d[k - 1])
      BY <1>11, <3>1
    <3>3. g[k] = g[k - 1] \o y[k] /\ w(d[k]) = w(d[k - 1]) \o y[k]
      BY <1>6, <1>9, <2>3
    <3>q. QED
      BY <2>1, <3>2, <3>3
  <2>q. QED
    BY <2>2, <2>3
<1> HIDE DEF S
<1>12. n \in S
  <2>1. \A k \in 0 .. n : k \in S
    BY <1>1, <1>10, <1>11, AllUpTo
  <2>q. QED
    BY <1>1, <2>1
<1>13. FlattenSeq(y) = w(total)
  <2>1. CASE n = 0
    <3>1. FlattenSeq(y) = y /\ y = << >> /\ total = 0
      BY <1>1, <1>3, <2>1, FlattenUnfolded DEF n
    <3>2. lead + 0 = lead /\ lead \in Int /\ lead <= lead
      OBVIOUS
    <3>3. Numbers(lead, lead) = << >>
      BY <3>2, NumbersAre
    <3>q. QED
      BY <3>1, <3>2, <3>3 DEF w
  <2>2. CASE n # 0
    <3>1. FlattenSeq(y) = g[n]
      BY <2>2, FlattenUnfolded DEF n, g
    <3>2. g[n] = w(d[n])
      BY <1>12, <2>2 DEF S
    <3>q. QED
      BY <1>3, <3>1, <3>2
  <2>q. QED
    BY <2>1, <2>2
<1>q. QED
  BY <1>1, <1>5, <1>13 DEF w

\* At one rate as many frames are expected as were received.
LEMMA ExpectedSame ==
  ASSUME NEW rates \in FileRates, Same(rates), NEW received \in Nat
  PROVE  Expected(rates, received) = received
<1> DEFINE from == rates.from
           twice == 2 * from
           x == 2 * received * from + from
           q == x \div twice
<1>1. from \in Nat \ {0} /\ rates.to = from
  BY RatesAre DEF Same
<1>2. Expected(rates, received) = q
  BY <1>1 DEF Expected
<1> HIDE DEF from
<1>3. received * from \in Nat /\ received * twice = 2 * (received * from)
  BY <1>1
<1>4. x = 2 * (received * from) + from
  BY <1>1
<1>5. x \in Int /\ twice \in Nat \ {0}
  BY <1>1, <1>3
<1>6. received * twice <= x /\ x < received * twice + twice
  BY <1>1, <1>3, <1>4
<1> HIDE DEF x
<1>7. q \in Int /\ q * twice <= x /\ x < q * twice + twice
  <2> HIDE DEF twice
  <2>q. QED
    BY <1>5, QuotientIs
<1>8. received <= q
  <2> HIDE DEF twice
  <2>q. QED
    BY <1>5, <1>6, QuotientGreatest
<1> HIDE DEF q
<1>9. ASSUME q >= received + 1 PROVE FALSE
  <2> HIDE DEF twice
  <2>1. q * twice >= (received + 1) * twice
    BY <1>5, <1>7, <1>9
  <2>2. (received + 1) * twice = received * twice + twice
    BY <1>5
  <2>3. received * twice \in Int /\ q * twice \in Int
    BY <1>5, <1>7
  <2>q. QED
    BY <1>5, <1>6, <1>7, <2>1, <2>2, <2>3
<1>q. QED
  BY <1>2, <1>7, <1>8, <1>9

\* A resampler between two pushes: in time, with less than a chunk left.
Waiting(rates, r) ==
  /\ InTime(rates, r) /\ r.buffered \in 0 .. (Chunk - 1)
  /\ r.received \in Nat /\ r.fed + r.buffered = r.received

\* A new resampler waits.
LEMMA NewIsWaiting ==
  ASSUME NEW rates \in FileRates
  PROVE  /\ NewResampler(rates) \in Resamplers /\ Waiting(rates, NewResampler(rates))
         /\ NewResampler(rates).emitted = 0 /\ NewResampler(rates).received = 0
<1> DEFINE r == NewResampler(rates)
           from == rates.from
           q == (0 * rates.to) \div from
<1>1. /\ from \in Nat \ {0} /\ rates.to \in Nat \ {0} /\ rates.slack \in Nat
      /\ rates.delay \in Nat /\ Chunk \in Nat \ {0}
  BY RatesAre
<1>2. << >> \in Seq(Int)
  OBVIOUS
<1>3. /\ r \in Resamplers /\ r.buffered = 0 /\ r.fed = 0 /\ r.received = 0 /\ r.emitted = 0
      /\ r.skip = rates.delay
  BY <1>1, <1>2 DEF NewResampler, Resamplers
<1>4. q = 0
  <2> HIDE DEF from
  <2>1. 0 * rates.to = 0 /\ 0 \div from = 0
    BY <1>1
  <2>q. QED
    BY <2>1
<1>5. Produced(rates, 0) = 0
  <2>1. Produced(rates, 0) = IF q > rates.slack THEN q - rates.slack ELSE 0
    BY DEF Produced
  <2> HIDE DEF q
  <2>q. QED
    BY <1>1, <1>4, <2>1
<1> HIDE DEF r, q
<1>6. Heard(rates, 0) = 0
  BY <1>1, <1>5 DEF Heard
<1>7. InTime(rates, r)
  BY <1>1, <1>3, <1>5, <1>6 DEF InTime
<1>8. Waiting(rates, r)
  BY <1>1, <1>3, <1>7 DEF Waiting
<1>q. QED
  BY <1>3, <1>8 DEF r

Refilled(r, o, n, b) == [r EXCEPT !.out = o, !.received = n, !.buffered = b]

\* Receiving frames leaves the rest of a resampler.
LEMMA RefilledIs ==
  ASSUME NEW r \in Resamplers, NEW n \in Int, NEW b \in Int, NEW o \in Seq(Int)
  PROVE  /\ Refilled(r, o, n, b) \in Resamplers /\ Refilled(r, o, n, b).fed = r.fed
         /\ Refilled(r, o, n, b).emitted = r.emitted /\ Refilled(r, o, n, b).skip = r.skip
         /\ Refilled(r, o, n, b).buffered = b /\ Refilled(r, o, n, b).received = n
         /\ Refilled(r, o, n, b).out = o
BY DEF Resamplers, Refilled

\* What a push hands out is what the filter put out since, and nothing before it.
LEMMA PushIs ==
  ASSUME NEW rates \in FileRates, NEW r, Waiting(rates, r), NEW frames \in Nat
  PROVE  /\ Waiting(rates, ResamplerPush(rates, r, frames))
         /\ ResamplerPush(rates, r, frames).received = r.received + frames
         /\ r.emitted \in Nat /\ ResamplerPush(rates, r, frames).emitted \in Nat
         /\ r.emitted <= ResamplerPush(rates, r, frames).emitted
         /\ ResamplerPush(rates, r, frames).out
              = Numbers(rates.delay + r.emitted,
                        rates.delay + ResamplerPush(rates, r, frames).emitted)
<1> DEFINE more == [r EXCEPT !.out = << >>, !.received = @ + frames, !.buffered = @ + frames]
           p == ResamplerPush(rates, r, frames)
           e == r.emitted
<1>1. /\ r \in Resamplers /\ r.fed \in Nat /\ e = Heard(rates, r.fed)
      /\ Chunk \in Nat \ {0} /\ rates.delay \in Nat /\ r.buffered \in Nat /\ r.received \in Nat
      /\ r.fed + r.buffered = r.received
  BY RatesAre DEF InTime, Waiting
<1>2. e \in Nat
  <2>1. r.fed <= r.received
    BY <1>1
  <2>q. QED
    BY <1>1, <2>1, HeardExpected
<1>3. /\ more \in Resamplers /\ more.fed = r.fed /\ more.emitted = e /\ more.skip = r.skip
      /\ more.buffered = r.buffered + frames /\ more.received = r.received + frames
      /\ more.out = << >>
  <2>1. << >> \in Seq(Int)
    OBVIOUS
  <2> DEFINE o == << >>
             n == r.received + frames
             b == r.buffered + frames
  <2>2. more = Refilled(r, o, n, b)
    BY Zenon DEF Refilled
  <2>3. n \in Int /\ b \in Int /\ o \in Seq(Int)
    BY <1>1, <2>1
  <2> HIDE DEF o, n, b, more
  <2>4. /\ more \in Resamplers /\ more.fed = r.fed /\ more.emitted = r.emitted
        /\ more.skip = r.skip /\ more.buffered = b /\ more.received = n /\ more.out = o
    BY <1>1, <2>2, <2>3, RefilledIs
  <2>q. QED
    BY <2>4 DEF n, b, o
<1>4. p = WholeChunks(rates, more)
  BY DEF ResamplerPush
<1> HIDE DEF more, p, e
<1>5. InTime(rates, more) /\ HasOut(rates, more, e)
  <2>1. Numbers(rates.delay + e, rates.delay + e) = << >>
    <3>1. rates.delay + e \in Int /\ rates.delay + e <= rates.delay + e
      BY <1>1, <1>2
    <3>q. QED
      BY <3>1, NumbersAre
  <2>2. HasOut(rates, more, e)
    BY <1>2, <1>3, <2>1 DEF HasOut
  <2>3. InTime(rates, r)
    BY DEF Waiting
  <2>4. InTime(rates, more)
    BY <1>1, <1>3, <2>3 DEF InTime
  <2>q. QED
    BY <2>2, <2>4
<1>6. /\ InTime(rates, p) /\ HasOut(rates, p, e) /\ p.buffered \in 0 .. (Chunk - 1)
      /\ p.fed + p.buffered = more.fed + more.buffered /\ p.received = more.received
      /\ more.emitted <= p.emitted
  <2>1. more.buffered \in Nat
    BY <1>1, <1>3
  <2>q. QED
    BY <1>2, <1>4, <1>5, <2>1, WholeChunksAre
<1>7. p.received = r.received + frames /\ p.fed + p.buffered = p.received /\ p.received \in Nat
  BY <1>1, <1>3, <1>6
<1>8. Waiting(rates, p)
  BY <1>6, <1>7 DEF Waiting
<1>9. p.emitted \in Nat
  <2>1. p.fed \in Nat /\ p.emitted = Heard(rates, p.fed) /\ p.fed <= p.fed
    BY <1>6 DEF InTime
  <2>q. QED
    BY <2>1, HeardExpected
<1>10. e <= p.emitted /\ p.out = Numbers(rates.delay + e, rates.delay + p.emitted)
  BY <1>6 DEF HasOut
<1>q. QED
  BY <1>2, <1>7, <1>8, <1>9, <1>10 DEF p, e

\* A stream is on time: it has yielded what was read, or what its resampler put out.
Lead(rates) == IF Same(rates) THEN 0 ELSE rates.delay
Held(rates, s) == IF Same(rates) THEN s.read ELSE s.resampler.emitted

StreamStates ==
  [yielded : Seq(Seq(Int)), resampler : Resamplers, read : Nat, status : {"decoding", "error"}]

OnTime(rates, s) ==
  /\ s \in StreamStates
  /\ Held(rates, s) \in Nat /\ Run(s.yielded, Lead(rates), Held(rates, s))
  /\ ~Same(rates) => Waiting(rates, s.resampler) /\ s.resampler.received = s.read

\* A new stream is on time.
LEMMA NewIsOnTime ==
  ASSUME NEW rates \in FileRates
  PROVE  /\ OnTime(rates, NewStream(rates))
         /\ NewStream(rates).status = "decoding" /\ NewStream(rates).read = 0
<1> DEFINE s == NewStream(rates)
           r == NewResampler(rates)
<1>1. /\ r \in Resamplers /\ Waiting(rates, r) /\ r.emitted = 0 /\ r.received = 0
      /\ Lead(rates) \in Nat
  BY NewIsWaiting, RatesAre DEF Lead
<1> HIDE DEF r
<1>2. << >> \in Seq(Seq(Int))
  OBVIOUS
<1>3. /\ s = [yielded |-> << >>, resampler |-> r, read |-> 0, status |-> "decoding"]
      /\ s.yielded = << >> /\ s.resampler = r /\ s.read = 0 /\ s.status = "decoding"
  BY DEF NewStream, r
<1>4. s \in StreamStates
  BY <1>1, <1>2, <1>3 DEF StreamStates
<1> HIDE DEF s
<1>5. Held(rates, s) = 0
  BY <1>1, <1>3 DEF Held
<1>6. Run(s.yielded, Lead(rates), 0)
  BY <1>1, <1>3, NoRun
<1>7. OnTime(rates, s)
  BY <1>1, <1>3, <1>4, <1>5, <1>6 DEF OnTime
<1>q. QED
  BY <1>3, <1>7 DEF s

Kinds == {"audio", "other", "corrupt", "broken"}

\* What a packet of audio adds.
AudioRead(rates, s, n) ==
  IF Same(rates)
  THEN Yield([s EXCEPT !.read = @ + n], Numbers(s.read, s.read + n))
  ELSE Yield([[s EXCEPT !.read = @ + n] EXCEPT !.resampler = ResamplerPush(rates, s.resampler, n)],
             ResamplerPush(rates, s.resampler, n).out)

\* What a packet does to a stream: after an error nothing,
LEMMA AfterTheEnd ==
  ASSUME NEW rates, NEW s, NEW packet, s.status = "error"
  PROVE  DecodePacket(rates, s, packet) = s
<1>1. s.status # "decoding"
  OBVIOUS
<1>q. QED
  BY <1>1, Zenon DEF DecodePacket

\* One that is broken ends it,
LEMMA BrokenPacket ==
  ASSUME NEW rates, NEW s, NEW packet, s.status = "decoding", packet[1] = "broken"
  PROVE  DecodePacket(rates, s, packet) = [s EXCEPT !.status = "error"]
<1>1. ~(s.status # "decoding") /\ packet[1] \notin {"other", "corrupt"} /\ packet[1] # "audio"
  OBVIOUS
<1>q. QED
  BY <1>1, Zenon DEF DecodePacket

\* one of another track or that does not decode is passed over,
LEMMA OtherPacket ==
  ASSUME NEW rates, NEW s, NEW packet, s.status = "decoding", packet[1] \in {"other", "corrupt"}
  PROVE  DecodePacket(rates, s, packet) = s
<1>1. ~(s.status # "decoding") /\ packet[1] # "broken" /\ packet[1] # "audio"
  OBVIOUS
<1>q. QED
  BY <1>1, Zenon DEF DecodePacket

\* and one of audio is read.
LEMMA AudioPacket ==
  ASSUME NEW rates, NEW s, NEW packet, s.status = "decoding", packet[1] = "audio"
  PROVE  DecodePacket(rates, s, packet) = IF packet[2] = 0 THEN s ELSE AudioRead(rates, s, packet[2])
<1>1. ~(s.status # "decoding") /\ packet[1] \notin {"other", "corrupt"} /\ packet[1] # "broken"
  OBVIOUS
<1> DEFINE pushed == ResamplerPush(rates, s.resampler, packet[2])
           after == [s EXCEPT !.read = @ + packet[2]]
           audio == IF packet[2] = 0 THEN s
                    ELSE IF Same(rates) THEN Yield(after, Numbers(s.read, after.read))
                    ELSE Yield([after EXCEPT !.resampler = pushed], pushed.out)
<1>2. DecodePacket(rates, s, packet) = audio
  BY <1>1, Zenon DEF DecodePacket
<1>q. QED
  BY <1>2 DEF AudioRead

\* Yielding adds to what was yielded and leaves the rest.
LEMMA YieldIs ==
  ASSUME NEW s \in StreamStates, NEW frames \in Seq(Int)
  PROVE  /\ Yield(s, frames) \in StreamStates
         /\ Yield(s, frames).resampler = s.resampler /\ Yield(s, frames).read = s.read
         /\ Yield(s, frames).status = s.status
         /\ Yield(s, frames).yielded = IF frames = << >> THEN s.yielded ELSE Append(s.yielded, frames)
<1>1. CASE frames = << >>
  BY <1>1 DEF Yield
<1>2. CASE frames # << >>
  <2> DEFINE y == Append(s.yielded, frames)
  <2>1. y \in Seq(Seq(Int))
    BY DEF StreamStates
  <2>2. Yield(s, frames) = [s EXCEPT !.yielded = y]
    BY <1>2, Zenon DEF Yield
  <2> HIDE DEF y
  <2>3. /\ [s EXCEPT !.yielded = y] \in StreamStates
        /\ [s EXCEPT !.yielded = y].resampler = s.resampler
        /\ [s EXCEPT !.yielded = y].read = s.read /\ [s EXCEPT !.yielded = y].status = s.status
        /\ [s EXCEPT !.yielded = y].yielded = y
    BY <2>1 DEF StreamStates
  <2>q. QED
    BY <1>2, <2>2, <2>3 DEF y
<1>q. QED
  BY <1>1, <1>2

\* A packet of audio that is read keeps a stream on time.
LEMMA AudioOnTime ==
  ASSUME NEW rates \in FileRates, NEW s, OnTime(rates, s), NEW n \in Nat
  PROVE  /\ OnTime(rates, AudioRead(rates, s, n))
         /\ AudioRead(rates, s, n).status = s.status
         /\ AudioRead(rates, s, n).read = s.read + n
<1> DEFINE next == AudioRead(rates, s, n)
<1>1. /\ s \in StreamStates /\ s.read \in Nat /\ Held(rates, s) \in Nat
      /\ Run(s.yielded, Lead(rates), Held(rates, s)) /\ Lead(rates) \in Nat
  BY RatesAre DEF OnTime, StreamStates, Lead
<1> DEFINE after == [s EXCEPT !.read = @ + n]
<1>2. /\ after \in StreamStates /\ after.read = s.read + n /\ after.status = s.status
      /\ after.yielded = s.yielded /\ after.resampler = s.resampler
  BY <1>1 DEF StreamStates
<1> HIDE DEF after
<1>3. CASE Same(rates)
  <2> DEFINE out == Numbers(s.read, s.read + n)
  <2>1. next = Yield(after, out)
    <3>1. next = Yield([s EXCEPT !.read = @ + n], Numbers(s.read, s.read + n))
      BY <1>3, Zenon DEF AudioRead
    <3>q. QED
      BY <3>1, Zenon DEF after
  <2> HIDE DEF next
  <2>2. out \in Seq(Int)
    <3>1. s.read \in Int /\ s.read + n \in Int
      BY <1>1
    <3>q. QED
      BY <3>1, NumbersAre
  <2>3. Held(rates, s) = s.read /\ Lead(rates) = 0
    BY <1>3 DEF Held, Lead
  <2>4. out = Numbers(0 + s.read, 0 + after.read) /\ after.read \in Nat /\ s.read <= after.read
    BY <1>1, <1>2
  <2> HIDE DEF out
  <2>5. /\ next \in StreamStates /\ next.read = after.read /\ next.status = after.status
        /\ next.yielded = IF out = << >> THEN s.yielded ELSE Append(s.yielded, out)
    BY <1>2, <2>1, <2>2, YieldIs
  <2>6. Run(next.yielded, 0, after.read)
    BY <1>1, <2>3, <2>4, <2>5, YieldRun
  <2>7. OnTime(rates, next)
    BY <1>3, <2>3, <2>4, <2>5, <2>6 DEF OnTime, Held
  <2>q. QED
    BY <1>2, <2>5, <2>7 DEF next
<1>4. CASE ~Same(rates)
  <2> DEFINE r == s.resampler
             p == ResamplerPush(rates, r, n)
             out == p.out
             full == [after EXCEPT !.resampler = p]
             delay == rates.delay
  <2>1. next = Yield(full, out)
    BY <1>4, Zenon DEF AudioRead, after
  <2>2. Held(rates, s) = r.emitted /\ Lead(rates) = delay
    BY <1>4 DEF Held, Lead
  <2>3. Waiting(rates, r) /\ r.received = s.read
    BY <1>4 DEF OnTime
  <2>4. /\ Waiting(rates, p) /\ p.received = r.received + n
        /\ r.emitted \in Nat /\ p.emitted \in Nat /\ r.emitted <= p.emitted
        /\ out = Numbers(delay + r.emitted, delay + p.emitted)
    BY <2>3, PushIs
  <2>5. p \in Resamplers /\ out \in Seq(Int)
    BY <2>4 DEF Waiting, InTime, Resamplers
  <2> HIDE DEF p, out, r, next
  <2>6. /\ full \in StreamStates /\ full.resampler = p /\ full.read = after.read
        /\ full.status = after.status /\ full.yielded = after.yielded
    BY <1>2, <2>5 DEF StreamStates
  <2> HIDE DEF full, delay
  <2>7. /\ next \in StreamStates /\ next.resampler = p /\ next.read = after.read
        /\ next.status = after.status
        /\ next.yielded = IF out = << >> THEN s.yielded ELSE Append(s.yielded, out)
    BY <1>2, <2>1, <2>5, <2>6, YieldIs
  <2>8. Run(next.yielded, delay, p.emitted)
    BY <1>1, <2>2, <2>4, <2>7, YieldRun
  <2>9. p.received = next.read
    BY <1>2, <2>3, <2>4, <2>7
  <2>10. Held(rates, next) = p.emitted
    BY <1>4, <2>7 DEF Held
  <2>11. OnTime(rates, next)
    BY <1>4, <2>2, <2>4, <2>7, <2>8, <2>9, <2>10 DEF OnTime
  <2>q. QED
    BY <1>2, <2>7, <2>11 DEF next
<1>q. QED
  BY <1>3, <1>4 DEF next

\* Any packet does, and it is counted when it was audio and nothing broke before it.
LEMMA PacketOnTime ==
  ASSUME NEW rates \in FileRates, NEW s, OnTime(rates, s), NEW packet \in Kinds \X Nat
  PROVE  /\ OnTime(rates, DecodePacket(rates, s, packet))
         /\ DecodePacket(rates, s, packet).status
              = IF packet[1] = "broken" THEN "error" ELSE s.status
         /\ DecodePacket(rates, s, packet).read
              = IF s.status = "decoding" /\ packet[1] = "audio" THEN s.read + packet[2] ELSE s.read
<1> DEFINE next == DecodePacket(rates, s, packet)
<1>1. s \in StreamStates /\ s.status \in {"decoding", "error"} /\ s.read \in Nat
  BY DEF OnTime, StreamStates
<1>2. packet[1] \in Kinds /\ packet[2] \in Nat
  OBVIOUS
<1> HIDE DEF next
<1>4. CASE s.status = "error"
  <2>1. next = s
    BY <1>4, AfterTheEnd DEF next
  <2>2. s.status # "decoding"
    BY <1>4
  <2>q. QED
    BY <1>4, <2>1, <2>2, Zenon DEF next
<1>5. CASE s.status = "decoding" /\ packet[1] = "broken"
  <2>1. next = [s EXCEPT !.status = "error"]
    BY <1>5, BrokenPacket DEF next
  <2>2. /\ next \in StreamStates /\ next.status = "error" /\ next.read = s.read
        /\ next.yielded = s.yielded /\ next.resampler = s.resampler
    BY <1>1, <2>1 DEF StreamStates
  <2>3. Held(rates, next) = Held(rates, s)
    BY <2>2 DEF Held
  <2>4. OnTime(rates, next)
    BY <2>2, <2>3, Zenon DEF OnTime
  <2>5. packet[1] # "audio"
    BY <1>5
  <2>q. QED
    BY <1>5, <2>2, <2>4, <2>5, Zenon DEF next
<1>6. CASE s.status = "decoding" /\ packet[1] \in {"other", "corrupt"}
  <2>1. next = s
    BY <1>6, OtherPacket DEF next
  <2>2. packet[1] # "audio" /\ packet[1] # "broken"
    BY <1>6
  <2>q. QED
    BY <2>1, <2>2, Zenon DEF next
<1>7. CASE s.status = "decoding" /\ packet[1] = "audio"
  <2>1. next = IF packet[2] = 0 THEN s ELSE AudioRead(rates, s, packet[2])
    BY <1>7, AudioPacket DEF next
  <2>2. packet[1] # "broken" /\ s.read + 0 = s.read
    BY <1>1, <1>7
  <2>3. CASE packet[2] = 0
    BY <1>7, <2>1, <2>2, <2>3, Zenon DEF next
  <2>4. CASE packet[2] # 0
    <3>1. next = AudioRead(rates, s, packet[2])
      BY <2>1, <2>4
    <3>2. /\ OnTime(rates, next) /\ next.status = s.status /\ next.read = s.read + packet[2]
      BY <1>2, <3>1, AudioOnTime
    <3>q. QED
      BY <1>7, <2>2, <3>2, Zenon DEF next
  <2>q. QED
    BY <2>3, <2>4
<1>q. QED
  BY <1>1, <1>2, <1>4, <1>5, <1>6, <1>7, Zenon DEF Kinds

\* The packets are read one by one.
IsReading(g, rates, packets) ==
  g = [s \in SUBSET DOMAIN packets |->
        IF s = {} THEN NewStream(rates) ELSE DecodePacket(rates, g[s \ {Max(s)}], packets[Max(s)])]
Reading(rates, packets) == CHOOSE g : IsReading(g, rates, packets)
Read(rates, packets) == Reading(rates, packets)[DOMAIN packets]

\* The fold over the packets is the value of such a function at all of them.
LEMMA ReadingUnfolded ==
  ASSUME NEW rates, NEW packets
  PROVE  FoldLeft(LAMBDA s, packet : DecodePacket(rates, s, packet), NewStream(rates), packets)
           = Read(rates, packets)
BY DEF FoldLeft, MapThenFoldSet, IsReading, Reading, Read

\* A stream is what was read, with a flush behind it when nothing broke.
LEMMA DecodingUnfolded ==
  ASSUME NEW rates, NEW packets
  PROVE  DecodeNextChunks(rates, packets)
           = IF Read(rates, packets).status = "error" THEN Read(rates, packets)
             ELSE IF Same(rates) THEN [Read(rates, packets) EXCEPT !.status = "finished"]
             ELSE Yield([Read(rates, packets) EXCEPT !.status = "finished"],
                        Flush(rates, Read(rates, packets).resampler).out)
BY ReadingUnfolded, Zenon DEF DecodeNextChunks

Streams(rates) == {s \in StreamStates : OnTime(rates, s)}

IsPacketByPacket(a, rates, packets) ==
  /\ a[0] = NewStream(rates)
  /\ \A j \in 1 .. Len(packets) : a[j] = DecodePacket(rates, a[j - 1], packets[j])
  /\ Read(rates, packets) = a[Len(packets)]

\* A file is a sequence of packets of the known kinds.
LEMMA PacketsAre ==
  ASSUME NEW packets \in Files
  PROVE  /\ Len(packets) \in Nat /\ DOMAIN packets = 1 .. Len(packets)
         /\ \A j \in 1 .. Len(packets) : packets[j] \in Kinds \X Nat
<1>1. IsSequence(packets) /\ \A j \in DOMAIN packets : packets[j] \in Kinds \X Nat
  BY DecodeAssumption DEF Kinds
<1>q. QED
  BY <1>1, SequenceDomain

\* So they are, whatever the file.
LEMMA PacketByPacket ==
  ASSUME NEW rates \in FileRates, NEW packets \in Files
  PROVE  \E a : IsPacketByPacket(a, rates, packets)
<1> DEFINE n == Len(packets)
           V == Streams(rates)
           base == NewStream(rates)
           st == [q \in (1 .. n) \X V |-> DecodePacket(rates, q[2], packets[q[1]])]
<1>1. n \in Nat /\ DOMAIN packets = 1 .. n /\ \A j \in 1 .. n : packets[j] \in Kinds \X Nat
  BY PacketsAre
<1>2. st \in [(1 .. n) \X V -> V]
  <2>1. ASSUME NEW q \in (1 .. n) \X V PROVE DecodePacket(rates, q[2], packets[q[1]]) \in V
    <3>1. OnTime(rates, q[2]) /\ packets[q[1]] \in Kinds \X Nat
      BY <1>1 DEF Streams
    <3>2. OnTime(rates, DecodePacket(rates, q[2], packets[q[1]]))
      BY <3>1, PacketOnTime
    <3>q. QED
      BY <3>2 DEF Streams, OnTime
  <2>q. QED
    BY <2>1
<1>3. \A j \in 1 .. n, v \in V : st[<<j, v>>] = DecodePacket(rates, v, packets[j])
  OBVIOUS
<1>4. base \in V
  <2>1. OnTime(rates, base)
    BY NewIsOnTime
  <2>q. QED
    BY <2>1 DEF Streams, OnTime
<1> HIDE DEF n, st, V, base
<1>5. PICK h \in [SUBSET (1 .. n) -> V] : Folds(h, st, base, n)
  BY <1>1, <1>2, <1>4, FoldExists
<1>6. IsReading(h, rates, packets)
  <2>1. ASSUME NEW s \in SUBSET (1 .. n), s # {}
        PROVE  h[s] = DecodePacket(rates, h[s \ {Max(s)}], packets[Max(s)])
    <3>1. Max(s) \in s /\ h[s] = st[<<Max(s), h[s \ {Max(s)}]>>]
      BY <1>5, <2>1 DEF Folds
    <3>2. h[s \ {Max(s)}] \in V /\ Max(s) \in 1 .. n
      BY <1>5, <3>1
    <3>q. QED
      BY <1>3, <3>1, <3>2
  <2>2. h[{}] = base
    BY <1>5 DEF Folds
  <2>3. h = [s \in SUBSET (1 .. n) |-> h[s]]
    BY <1>5
  <2>4. \A s \in SUBSET (1 .. n) :
          h[s] = IF s = {} THEN base ELSE DecodePacket(rates, h[s \ {Max(s)}], packets[Max(s)])
    BY <2>1, <2>2
  <2>q. QED
    BY <1>1, <2>3, <2>4 DEF IsReading, base
<1> DEFINE g == Reading(rates, packets)
           a == [j \in 0 .. n |-> g[1 .. j]]
<1>7. IsReading(g, rates, packets)
  BY <1>6 DEF Reading
<1>8. Read(rates, packets) = g[1 .. n]
  BY <1>1 DEF Read
<1> HIDE DEF g
<1>9. a[0] = base
  <2>1. 1 .. 0 = {}
    OBVIOUS
  <2>2. g[{}] = base
    BY <1>7 DEF IsReading, base
  <2>q. QED
    BY <1>1, <2>1, <2>2
<1>10. ASSUME NEW j \in 1 .. n PROVE a[j] = DecodePacket(rates, a[j - 1], packets[j])
  <2>1. /\ 1 .. j \in SUBSET (1 .. n) /\ 1 .. j # {}
        /\ Max(1 .. j) = j /\ (1 .. j) \ {j} = 1 .. (j - 1)
    BY <1>1, FirstPlaces
  <2>2. g[1 .. j] = DecodePacket(rates, g[(1 .. j) \ {Max(1 .. j)}], packets[Max(1 .. j)])
    BY <1>1, <1>7, <2>1 DEF IsReading
  <2>3. a[j] = g[1 .. j] /\ a[j - 1] = g[1 .. (j - 1)]
    BY <1>1
  <2>q. QED
    BY <2>1, <2>2, <2>3
<1>11. a[n] = g[1 .. n]
  BY <1>1
<1> HIDE DEF a
<1>12. IsPacketByPacket(a, rates, packets)
  BY <1>8, <1>9, <1>10, <1>11 DEF IsPacketByPacket, n, base
<1>q. QED
  BY <1>12

\* The packets of audio that nothing broken comes before.
Readable(packets) ==
  {i \in DOMAIN packets : packets[i][1] = "audio" /\ \A j \in 1 .. i : packets[j][1] # "broken"}
SizesOf(packets) == [i \in Readable(packets) |-> packets[i][2]]
Broken(packets) == \E i \in DOMAIN packets : packets[i][1] = "broken"

\* What was read of the first k packets.
IsReadTo(s, rates, packets, k) ==
  /\ OnTime(rates, s)
  /\ s.status = IF \E i \in 1 .. k : packets[i][1] = "broken" THEN "error" ELSE "decoding"
  /\ s.read = SumFunctionOnSet(SizesOf(packets), Readable(packets) \cap 1 .. k)

\* They are finitely many, each with its size.
LEMMA ReadableFinite ==
  ASSUME NEW packets \in Files
  PROVE  /\ \A K \in SUBSET Readable(packets) : IsFiniteSet(K)
         /\ \A i \in Readable(packets) : SizesOf(packets)[i] = packets[i][2] /\ packets[i][2] \in Nat
<1>1. /\ Len(packets) \in Nat /\ DOMAIN packets = 1 .. Len(packets)
      /\ \A j \in 1 .. Len(packets) : packets[j] \in Kinds \X Nat
  BY PacketsAre
<1>2. IsFiniteSet(1 .. Len(packets))
  BY <1>1, FS_Interval
<1>3. Readable(packets) \subseteq 1 .. Len(packets)
  BY <1>1 DEF Readable
<1>4. \A K \in SUBSET Readable(packets) : IsFiniteSet(K)
  BY <1>2, <1>3, FS_Subset
<1>5. \A i \in Readable(packets) : SizesOf(packets)[i] = packets[i][2] /\ packets[i][2] \in Nat
  BY <1>1, <1>3 DEF SizesOf
<1>q. QED
  BY <1>4, <1>5

\* One packet more is read as the first ones were.
LEMMA OnePacketMore ==
  ASSUME NEW rates \in FileRates, NEW packets \in Files, NEW k \in 1 .. Len(packets),
         NEW s, IsReadTo(s, rates, packets, k - 1)
  PROVE  IsReadTo(DecodePacket(rates, s, packets[k]), rates, packets, k)
<1> DEFINE packet == packets[k]
           next == DecodePacket(rates, s, packet)
           f == SizesOf(packets)
           R == Readable(packets)
           A == R \cap 1 .. k
           B == R \cap 1 .. (k - 1)
           broken == \E i \in 1 .. (k - 1) : packets[i][1] = "broken"
<1>1. packet \in Kinds \X Nat /\ k \in DOMAIN packets /\ k \in Nat \ {0}
  BY PacketsAre
<1>2. /\ OnTime(rates, next)
      /\ next.status = IF packet[1] = "broken" THEN "error" ELSE s.status
      /\ next.read = IF s.status = "decoding" /\ packet[1] = "audio" THEN s.read + packet[2] ELSE s.read
  BY <1>1, PacketOnTime DEF IsReadTo
<1>3. /\ s.status = IF broken THEN "error" ELSE "decoding"
      /\ s.read = SumFunctionOnSet(f, B)
  BY DEF IsReadTo
<1> HIDE DEF next
<1>4. \A i : i \in 1 .. k <=> i \in 1 .. (k - 1) \/ i = k
  BY <1>1
<1>5. (\E i \in 1 .. k : packets[i][1] = "broken") <=> broken \/ packet[1] = "broken"
  BY <1>4
<1>6. k \in R <=> packet[1] = "audio" /\ ~broken
  <2>1. k \in R <=> packet[1] = "audio" /\ ~(broken \/ packet[1] = "broken")
    BY <1>1, <1>5 DEF Readable
  <2>2. packet[1] = "audio" => packet[1] # "broken"
    OBVIOUS
  <2>q. QED
    BY <2>1, <2>2
<1>7. next.status = IF \E i \in 1 .. k : packets[i][1] = "broken" THEN "error" ELSE "decoding"
  BY <1>2, <1>3, <1>5
<1>8. IsFiniteSet(A) /\ IsFiniteSet(B) /\ \A i \in R : f[i] = packets[i][2] /\ f[i] \in Nat
  <2>1. A \subseteq R /\ B \subseteq R
    OBVIOUS
  <2>q. QED
    BY <2>1, ReadableFinite
<1>9. next.read = SumFunctionOnSet(f, A)
  <2> HIDE DEF f, R, broken
  <2>1. CASE k \in R
    <3>1. k \in A /\ A \ {k} = B /\ \A i \in A : f[i] \in Int
      BY <1>4, <1>8, <2>1
    <3>2. SumFunctionOnSet(f, A) = f[k] + SumFunctionOnSet(f, B)
      <4> HIDE DEF A, B
      <4>1. SumFunctionOnSet(f, A) = f[k] + SumFunctionOnSet(f, A \ {k})
        BY <1>8, <3>1, SumByElement
      <4>q. QED
        BY <3>1, <4>1
    <3>3. next.read = s.read + packet[2]
      BY <1>2, <1>3, <1>6, <2>1
    <3>4. SumFunctionOnSet(f, B) \in Nat /\ f[k] = packet[2] /\ packet[2] \in Nat
      <4>1. \A i \in B : f[i] \in Nat
        BY <1>8
      <4>2. SumFunctionOnSet(f, B) \in Nat
        BY <1>8, <4>1, SumIn
      <4>q. QED
        BY <1>8, <2>1, <4>2
    <3>q. QED
      BY <1>3, <3>2, <3>3, <3>4
  <2>2. CASE k \notin R
    <3>1. A = B
      BY <1>4, <2>2
    <3>2. next.read = s.read
      BY <1>2, <1>3, <1>6, <2>2
    <3>q. QED
      BY <1>3, <3>1, <3>2
  <2>q. QED
    BY <2>1, <2>2
<1>q. QED
  BY <1>2, <1>7, <1>9, Zenon DEF IsReadTo, next

\* What was read of all.
LEMMA AllRead ==
  ASSUME NEW rates \in FileRates, NEW packets \in Files
  PROVE  /\ OnTime(rates, Read(rates, packets))
         /\ Read(rates, packets).status = IF Broken(packets) THEN "error" ELSE "decoding"
         /\ Read(rates, packets).read = SumFunction(SizesOf(packets))
<1> DEFINE n == Len(packets)
<1>1. n \in Nat /\ DOMAIN packets = 1 .. n
  BY PacketsAre
<1>2. PICK a : IsPacketByPacket(a, rates, packets)
  BY PacketByPacket
<1> DEFINE S == {k \in 0 .. n : IsReadTo(a[k], rates, packets, k)}
<1>3. 0 \in S
  <2>1. a[0] = NewStream(rates)
    BY <1>2 DEF IsPacketByPacket
  <2>2. OnTime(rates, a[0]) /\ a[0].status = "decoding" /\ a[0].read = 0
    BY <2>1, NewIsOnTime
  <2>3. 1 .. 0 = {} /\ Readable(packets) \cap {} = {}
    OBVIOUS
  <2>4. SumFunctionOnSet(SizesOf(packets), {}) = 0
    BY FS_EmptySet, SumByChosen
  <2>5. IsReadTo(a[0], rates, packets, 0)
    BY <2>2, <2>3, <2>4 DEF IsReadTo
  <2>q. QED
    BY <1>1, <2>5
<1>4. ASSUME NEW k \in 1 .. n, k - 1 \in S PROVE k \in S
  <2>1. IsReadTo(a[k - 1], rates, packets, k - 1) /\ k \in 0 .. n
    BY <1>1, <1>4
  <2>2. a[k] = DecodePacket(rates, a[k - 1], packets[k])
    BY <1>2 DEF IsPacketByPacket
  <2>q. QED
    BY <1>1, <2>1, <2>2, OnePacketMore
<1> HIDE DEF S
<1>5. n \in S
  <2>1. \A k \in 0 .. n : k \in S
    BY <1>1, <1>3, <1>4, AllUpTo
  <2>q. QED
    BY <1>1, <2>1
<1>6. Read(rates, packets) = a[n]
  BY <1>2 DEF IsPacketByPacket
<1>7. IsReadTo(Read(rates, packets), rates, packets, n)
  BY <1>5, <1>6 DEF S
<1>8. Readable(packets) \cap 1 .. n = Readable(packets)
  BY <1>1 DEF Readable
<1>9. SumFunction(SizesOf(packets)) = SumFunctionOnSet(SizesOf(packets), Readable(packets))
  <2>1. DOMAIN SizesOf(packets) = Readable(packets)
    BY DEF SizesOf
  <2>q. QED
    BY <2>1 DEF SumFunction
<1>q. QED
  BY <1>1, <1>7, <1>8, <1>9, Zenon DEF IsReadTo, Broken

\* The last chunk of a stream that ends well.
LEMMA FinishedIs ==
  ASSUME NEW s \in StreamStates, NEW frames
  PROVE  /\ [s EXCEPT !.status = "finished"].status = "finished"
         /\ [s EXCEPT !.status = "finished"].yielded = s.yielded
         /\ Yield([s EXCEPT !.status = "finished"], frames).status = "finished"
         /\ Yield([s EXCEPT !.status = "finished"], frames).yielded
              = IF frames = << >> THEN s.yielded ELSE Append(s.yielded, frames)
<1> DEFINE t == [s EXCEPT !.status = "finished"]
           y == Append(s.yielded, frames)
<1>1. /\ t.status = "finished" /\ t.yielded = s.yielded /\ t.resampler = s.resampler
      /\ t.read = s.read
      /\ t = [yielded |-> t.yielded, resampler |-> t.resampler, read |-> t.read, status |-> t.status]
  BY DEF StreamStates
<1> HIDE DEF t
<1>2. CASE frames = << >>
  BY <1>1, <1>2 DEF Yield, t
<1>3. CASE frames # << >>
  <2>1. Yield(t, frames) = [t EXCEPT !.yielded = y]
    BY <1>1, <1>3, Zenon DEF Yield
  <2> HIDE DEF y
  <2>2. [t EXCEPT !.yielded = y].status = "finished" /\ [t EXCEPT !.yielded = y].yielded = y
    BY <1>1
  <2>q. QED
    BY <1>1, <1>3, <2>1, <2>2 DEF t, y
<1>q. QED
  BY <1>2, <1>3

\* How many frames of a stream are heard: what was received comes to so many at the
\* output's rate, and no more before that when it broke off.
LEMMA StreamIs ==
  ASSUME NEW rates \in FileRates, NEW packets \in Files, NEW w,
         w = DecodeNextChunks(rates, packets)
  PROVE  /\ w.status = IF Broken(packets) THEN "error" ELSE "finished"
         /\ Expected(rates, SumFunction(SizesOf(packets))) \in Nat
         /\ SumFunction(SizesOf(packets)) \in Nat
         /\ \E total \in Nat :
              /\ Run(w.yielded, Lead(rates), total)
              /\ total <= Expected(rates, SumFunction(SizesOf(packets)))
              /\ ~Broken(packets) => total = Expected(rates, SumFunction(SizesOf(packets)))
<1> DEFINE s == Read(rates, packets)
           frames == SumFunction(SizesOf(packets))
           lasts == Expected(rates, frames)
           lead == Lead(rates)
           r == s.resampler
<1>1. /\ OnTime(rates, s) /\ s.read = frames
      /\ s.status = IF Broken(packets) THEN "error" ELSE "decoding"
  BY AllRead
<1>2. /\ w = IF s.status = "error" THEN s
             ELSE IF Same(rates) THEN [s EXCEPT !.status = "finished"]
             ELSE Yield([s EXCEPT !.status = "finished"], Flush(rates, r).out)
  BY DecodingUnfolded
<1> HIDE DEF s
<1>3. /\ s \in StreamStates /\ frames \in Nat /\ Held(rates, s) \in Nat
      /\ Run(s.yielded, lead, Held(rates, s))
      /\ ~Same(rates) => Waiting(rates, r) /\ r.received = frames
  <2>1. s \in StreamStates /\ s.read \in Nat
    BY <1>1 DEF OnTime, StreamStates
  <2>q. QED
    BY <1>1, <2>1, Zenon DEF OnTime
<1>4. /\ lasts \in Nat /\ lead \in Nat
  <2>1. frames <= frames
    BY <1>3
  <2>2. lasts \in Nat
    BY <1>3, <2>1, HeardExpected
  <2>q. QED
    BY <2>2, RatesAre DEF Lead
<1> HIDE DEF frames, lasts, lead
<1>5. Same(rates) => Held(rates, s) = lasts
  BY <1>1, <1>3, ExpectedSame DEF Held, lasts
<1>6. ASSUME ~Same(rates)
      PROVE  /\ Held(rates, s) = r.emitted /\ r.emitted <= lasts /\ lead = rates.delay
             /\ Flush(rates, r).out = Numbers(lead + r.emitted, lead + lasts)
  <2>1. Waiting(rates, r) /\ r.received = frames
    BY <1>3, <1>6
  <2>2. /\ InTime(rates, r) /\ r.buffered \in 0 .. (Chunk - 1) /\ r.received \in Nat
        /\ r.fed + r.buffered = r.received
    BY <2>1 DEF Waiting
  <2> HIDE DEF r
  <2>3. /\ r.emitted <= Expected(rates, r.received)
        /\ Flush(rates, r).out
             = Numbers(rates.delay + r.emitted, rates.delay + Expected(rates, r.received))
    BY <1>6, <2>2, FlushIs
  <2>4. Held(rates, s) = r.emitted /\ lead = rates.delay
    BY <1>6 DEF Held, Lead, lead, r
  <2>q. QED
    BY <2>1, <2>3, <2>4 DEF lasts
<1>7. CASE Broken(packets)
  <2>1. w = s /\ w.status = "error"
    BY <1>1, <1>2, <1>7
  <2>2. Held(rates, s) <= lasts
    BY <1>4, <1>5, <1>6
  <2>3. /\ Held(rates, s) \in Nat /\ Run(w.yielded, lead, Held(rates, s))
    BY <1>3, <2>1
  <2>q. QED
    BY <1>3, <1>4, <1>7, <2>1, <2>2, <2>3 DEF frames, lasts, lead
<1>8. CASE ~Broken(packets)
  <2>1. s.status # "error"
    BY <1>1, <1>8
  <2>2. CASE Same(rates)
    <3>1. w = [s EXCEPT !.status = "finished"]
      BY <1>2, <2>1, <2>2
    <3>2. w.status = "finished" /\ w.yielded = s.yielded
      BY <1>3, <3>1, FinishedIs
    <3>3. Run(w.yielded, lead, lasts) /\ lasts <= lasts
      BY <1>3, <1>4, <1>5, <2>2, <3>2
    <3>q. QED
      BY <1>3, <1>4, <1>8, <3>2, <3>3 DEF frames, lasts, lead
  <2>3. CASE ~Same(rates)
    <3> DEFINE out == Flush(rates, r).out
    <3>1. w = Yield([s EXCEPT !.status = "finished"], out)
      BY <1>2, <2>1, <2>3
    <3>2. /\ Held(rates, s) = r.emitted /\ r.emitted <= lasts
          /\ out = Numbers(lead + r.emitted, lead + lasts)
      BY <1>6, <2>3
    <3> HIDE DEF out
    <3>3. /\ w.status = "finished"
          /\ w.yielded = IF out = << >> THEN s.yielded ELSE Append(s.yielded, out)
      BY <1>3, <3>1, FinishedIs
    <3> DEFINE t == Held(rates, s)
               y == s.yielded
    <3>4. t \in Nat /\ t <= lasts /\ Run(y, lead, t) /\ out = Numbers(lead + t, lead + lasts)
      BY <1>3, <3>2
    <3> HIDE DEF t, y
    <3>5. Run(IF out = << >> THEN y ELSE Append(y, out), lead, lasts)
      BY <1>4, <3>4, YieldRun
    <3>6. Run(w.yielded, lead, lasts) /\ lasts <= lasts
      BY <1>4, <3>3, <3>5 DEF y
    <3>q. QED
      BY <1>3, <1>4, <1>8, <3>3, <3>6 DEF frames, lasts, lead
  <2>q. QED
    BY <2>2, <2>3
<1>q. QED
  BY <1>7, <1>8

\* A stream that is answered is of a file.
LEMMA StreamAnswered ==
  ASSUME DecisionInv, Answered("decode")
  PROVE  /\ ask.rates \in FileRates /\ ask.packets \in Files
         /\ answer = DecodeNextChunks(ask.rates, ask.packets)
<1>1. AskDecode
  BY DEF DecisionInv, Answered
<1>2. ask.rates \in FileRates /\ ask.packets \in Files
  BY <1>1 DEF AskDecode
<1>3. answer = DecodeNextChunks(ask.rates, ask.packets)
  BY Zenon DEF DecisionInv
<1>q. QED
  BY <1>2, <1>3

\* What a stream sounds like.
LEMMA StreamSounds ==
  ASSUME NEW rates \in FileRates, NEW packets \in Files, NEW w,
         w = DecodeNextChunks(rates, packets)
  PROVE  LET sound == FlattenSeq(w.yielded)
             lasts == Expected(rates, SumFunction(SizesOf(packets)))
         IN  /\ Len(sound) \in Nat /\ sound = Numbers(Lead(rates), Lead(rates) + Len(sound))
             /\ \A i \in DOMAIN sound : sound[i] = Lead(rates) + i - 1
             /\ \A i \in DOMAIN w.yielded : w.yielded[i] # << >>
             /\ IF Broken(packets) THEN Len(sound) <= lasts ELSE Len(sound) = lasts
<1> DEFINE sound == FlattenSeq(w.yielded)
           lasts == Expected(rates, SumFunction(SizesOf(packets)))
           lead == Lead(rates)
           y == w.yielded
<1>1. PICK total \in Nat :
        /\ Run(y, lead, total) /\ total <= lasts
        /\ ~Broken(packets) => total = lasts
  BY StreamIs
<1>2. lead \in Nat
  BY RatesAre DEF Lead
<1>0. sound = FlattenSeq(y)
  OBVIOUS
<1> HIDE DEF lead, lasts, y, sound
<1>3. sound = Numbers(lead, lead + total) /\ \A k \in DOMAIN y : y[k] # << >>
  BY <1>0, <1>1, <1>2, RunIsHeard
<1> DEFINE b == lead + total
<1>4. b \in Int /\ lead \in Int /\ lead <= b /\ b - lead = total
  BY <1>2
<1>5. sound = Numbers(lead, b)
  BY <1>3
<1> HIDE DEF b
<1>6. Len(sound) = b - lead
  BY <1>4, <1>5, NumbersOf
<1>7. Len(sound) = total
  BY <1>4, <1>6
<1>8. \A i \in DOMAIN sound : sound[i] = lead + i - 1
  BY <1>4, <1>5, NumbersAre
<1>9. /\ Len(sound) \in Nat /\ sound = Numbers(lead, lead + Len(sound))
      /\ IF Broken(packets) THEN Len(sound) <= lasts ELSE Len(sound) = lasts
  BY <1>1, <1>3, <1>7
<1>q. QED
  BY <1>3, <1>8, <1>9, Zenon DEF sound, lasts, lead, y

\* A stream is heard in time,
LEMMA StreamsInTime == DecisionInv => StreamInTime
<1> SUFFICES ASSUME DecisionInv, Answered("decode") PROVE StreamInTime
  BY DEF StreamInTime
<1> DEFINE rates == ask.rates
           packets == ask.packets
           sound == FlattenSeq(answer.yielded)
           lasts == Expected(rates, SumFunction(SizesOf(packets)))
<1>1. rates \in FileRates /\ packets \in Files /\ answer = DecodeNextChunks(rates, packets)
  BY StreamAnswered
<1>2. answer.status = IF Broken(packets) THEN "error" ELSE "finished"
  <2> HIDE DEF rates, packets
  <2>q. QED
    BY <1>1, StreamIs
<1>3. /\ \A i \in DOMAIN sound : sound[i] = Lead(rates) + i - 1
      /\ \A i \in DOMAIN answer.yielded : answer.yielded[i] # << >>
      /\ IF Broken(packets) THEN Len(sound) <= lasts ELSE Len(sound) = lasts
  <2> HIDE DEF rates, packets
  <2>q. QED
    BY <1>1, StreamSounds
<1>q. QED
  BY <1>2, <1>3, Zenon DEF StreamInTime, Lead, Broken, SizesOf, Readable

\* Of two chunks of a file longer than the filter all of it comes out.
LEMMA ResampledWhole ==
  ASSUME NEW rates \in FileRates, NEW frames \in Nat,
         Expected(rates, frames) > rates.delay + rates.slack
  PROVE  Resample(rates, frames) = Numbers(rates.delay, rates.delay + Expected(rates, frames))
<1> DEFINE to == rates.to
           from == rates.from
           delay == rates.delay
           slack == rates.slack
           twice == 2 * from
           x == 2 * frames * to + from
           y == (2 * frames) * to
           e == x \div twice
           out == y \div from
<1>1. /\ from \in Nat \ {0} /\ to \in Nat \ {0} /\ slack \in Nat /\ delay \in Nat
  BY RatesAre
<1>2. Expected(rates, frames) = e
  BY DEF Expected
<1>3. Produced(rates, 2 * frames) = IF out > slack THEN out - slack ELSE 0
  BY DEF Produced
<1>4. e > delay + slack
  BY <1>2
<1> HIDE DEF to, from, delay, slack
<1>5. frames * to \in Nat /\ x = 2 * (frames * to) + from /\ y = 2 * (frames * to)
  BY <1>1
<1>6. x \in Int /\ y \in Int /\ twice \in Nat \ {0} /\ x = y + from
  BY <1>1, <1>5
<1> HIDE DEF x, y
<1>7. e \in Int /\ e * twice <= x
  <2> HIDE DEF twice
  <2>q. QED
    BY <1>6, QuotientIs
<1> HIDE DEF e
<1>8. (2 * e - 1) * from <= y
  <2>1. e * twice = 2 * (e * from) /\ (2 * e - 1) * from = 2 * (e * from) - from
    BY <1>1, <1>7
  <2>2. e * from \in Int
    BY <1>1, <1>7
  <2>q. QED
    BY <1>1, <1>6, <1>7, <2>1, <2>2
<1>9. 2 * e - 1 <= out /\ out \in Int
  <2> DEFINE q == 2 * e - 1
  <2>1. q \in Int /\ q * from <= y
    BY <1>7, <1>8
  <2> HIDE DEF q
  <2>2. q <= out /\ out \in Int
    BY <1>1, <1>6, <2>1, QuotientGreatest, QuotientIs
  <2>q. QED
    BY <2>2 DEF q
<1> HIDE DEF out
<1>10. frames # 0
  <2> SUFFICES ASSUME frames = 0 PROVE FALSE
    OBVIOUS
  <2>1. x = from
    BY <1>1, <1>5
  <2>2. e >= 1
    BY <1>1, <1>4, <1>7
  <2>3. e * twice >= 1 * twice
    BY <1>6, <1>7, <2>2
  <2>4. 1 * twice = 2 * from
    BY <1>1
  <2>5. e * twice \in Int
    BY <1>6, <1>7
  <2> HIDE DEF twice
  <2>q. QED
    BY <1>1, <1>6, <1>7, <2>1, <2>3, <2>4, <2>5
<1> DEFINE a == delay + e
           b == Produced(rates, 2 * frames)
<1>11. b \in Int /\ a <= b /\ a \in Int /\ a \in Nat /\ a >= delay
  BY <1>1, <1>3, <1>4, <1>7, <1>9
<1> HIDE DEF a, b
<1>12. Min({a, b}) = a /\ Max({a, delay}) = a
  <2>1. Min({a, b}) = a
    BY <1>11, MinOfTwo
  <2>2. a \in {a, delay} /\ \A z \in {a, delay} : a >= z
    BY <1>1, <1>11
  <2>3. \A z \in {a, delay} : (\A v \in {a, delay} : z >= v) => z = a
    BY <1>1, <1>11
  <2>4. Max({a, delay}) = a
    BY <2>2, <2>3 DEF Max
  <2>q. QED
    BY <2>1, <2>4
<1>13. Resample(rates, frames)
         = IF frames = 0 THEN << >> ELSE Numbers(delay, Max({Min({a, b}), delay}))
  BY <1>2, Zenon DEF Resample, a, b, delay
<1>q. QED
  BY <1>2, <1>10, <1>12, <1>13 DEF a, delay

\* and a whole file as a stream.
LEMMA WholesAsStreams == DecisionInv => WholeAsStream
<1> SUFFICES ASSUME DecisionInv, Answered("decode") PROVE WholeAsStream
  BY DEF WholeAsStream
<1> DEFINE rates == ask.rates
           packets == ask.packets
           sound == FlattenSeq(answer.yielded)
           whole == DecodeFile(rates, packets)
           filter == rates.delay + rates.slack
           frames == SumFunction(SizesOf(packets))
           lasts == Expected(rates, frames)
           audio == {i \in DOMAIN packets : packets[i][1] = "audio"}
           sizes == [i \in audio |-> packets[i][2]]
<1>1. rates \in FileRates /\ packets \in Files /\ answer = DecodeNextChunks(rates, packets)
  BY StreamAnswered
<1> HIDE DEF rates, packets
<1>2. answer.status = (IF Broken(packets) THEN "error" ELSE "finished") /\ frames \in Nat
  BY <1>1, StreamIs
<1>3. /\ Len(sound) \in Nat /\ sound = Numbers(Lead(rates), Lead(rates) + Len(sound))
      /\ IF Broken(packets) THEN Len(sound) <= lasts ELSE Len(sound) = lasts
  BY <1>1, StreamSounds
<1>4. whole = IF Broken(packets) THEN [frames |-> << >>, status |-> "error"]
              ELSE [frames |-> IF Same(rates) THEN Numbers(0, SumFunction(sizes))
                               ELSE Resample(rates, SumFunction(sizes)),
                    status |-> "finished"]
  BY Zenon DEF DecodeFile, Broken
<1>5. whole.status = answer.status /\ (whole.status = "error" => whole.frames = << >>)
  BY <1>2, <1>4
<1>6. ASSUME whole.status = "finished", Len(sound) > filter PROVE whole.frames = sound
  <2>1. ~Broken(packets)
    BY <1>2, <1>5, <1>6
  <2>2. SumFunction(sizes) = frames
    <3>1. \A i \in DOMAIN packets : \A j \in 1 .. i : j \in DOMAIN packets
      <4>1. Len(packets) \in Nat /\ DOMAIN packets = 1 .. Len(packets)
        BY <1>1, PacketsAre
      <4>q. QED
        BY <4>1
    <3>2. audio = Readable(packets)
      BY <2>1, <3>1 DEF Readable, Broken
    <3>q. QED
      BY <3>2, Zenon DEF SizesOf
  <2>3. whole.frames = IF Same(rates) THEN Numbers(0, frames) ELSE Resample(rates, frames)
    BY <1>4, <2>1, <2>2
  <2>4. Len(sound) = lasts
    BY <1>3, <2>1
  <2> HIDE DEF frames, whole, sound
  <2>5. CASE Same(rates)
    <3>1. lasts = frames
      BY <1>1, <1>2, <2>5, ExpectedSame
    <3>2. Lead(rates) = 0 /\ 0 + frames = frames
      BY <1>2, <2>5 DEF Lead
    <3>q. QED
      BY <1>3, <2>3, <2>4, <2>5, <3>1, <3>2
  <2>6. CASE ~Same(rates)
    <3>1. Lead(rates) = rates.delay
      BY <2>6 DEF Lead
    <3>2. Expected(rates, frames) > rates.delay + rates.slack
      BY <1>6, <2>4
    <3>3. Resample(rates, frames) = Numbers(rates.delay, rates.delay + lasts)
      BY <1>1, <1>2, <3>2, ResampledWhole
    <3>q. QED
      BY <1>3, <2>3, <2>4, <2>6, <3>1, <3>3
  <2>q. QED
    BY <2>5, <2>6
<1>q. QED
  BY <1>5, <1>6, Zenon DEF WholeAsStream, whole, sound, rates, packets

\* A file sounds from its first frame to its last and no longer, decoded as a stream
\* in whatever packets, at whatever two rates, and the same decoded as a whole.
THEOREM DecodingIsInTime == DecisionSpec => []DecodedInTime
<1>1. DecisionInv => DecodedInTime
  BY StreamsInTime, WholesAsStreams DEF DecodedInTime
<1>q. QED
  BY <1>1, DecisionInvariance, PTL
=============================================================================
