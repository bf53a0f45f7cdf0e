--------------------------- MODULE PeerClusterProofs ---------------------------
(* What PeerCluster.tla states of the list of peers, proved for any pools,      *)
(* addresses and slices given to Reset, as long as no slice repeats an address. *)
EXTENDS PeerCluster, FiniteSetTheorems, FunctionTheorems, WellFoundedInduction,
        SequenceTheorems, TLAPS

USE ClusterAssumption

-----------------------------------------------------------------------------
(* Recursive functions on an interval *)

\* A set of numbers that is not empty has a least element.
LEMMA Least ==
    ASSUME NEW T \in SUBSET Nat, T # {}
    PROVE  \E x \in T : \A y \in T : x <= y
<1>1. PICK x \in T : \A y \in T : ~(<<y, x>> \in OpToRel(<, Nat))
  BY NatLessThanWellFounded, WFMin, Zenon
<1>2. ASSUME NEW y \in T PROVE x <= y
  <2>1. <<y, x>> \notin {ss \in Nat \X Nat : ss[1] < ss[2]}
    BY <1>1 DEF OpToRel
  <2> QED BY <2>1
<1> QED BY <1>2

\* A recursion along an interval has a solution.
Steps(T, n, g) == g \in [1..n -> [T -> T]]
Solution(T, n, e, g, f) ==
    f \in [0..n -> T] /\ f[0] = e /\ \A i \in 1..n : f[i] = g[i][f[i - 1]]

\* A function that is given by its first value and its steps exists.
LEMMA Recursion ==
    ASSUME NEW T, NEW n \in Nat, NEW e \in T, NEW g, Steps(T, n, g)
    PROVE  \E f : Solution(T, n, e, g, f)
<1> DEFINE Solves(f, k) == f[0] = e /\ \A i \in 1..k : f[i] = g[i][f[i - 1]]
           Solvable(k) == \E f \in [0..k -> T] : Solves(f, k)
           Bad == {k \in 0..n : ~Solvable(k)}
<1> USE DEF Steps
<1>1. SUFFICES ASSUME Bad # {} PROVE FALSE
  <2>1. (Bad = {}) => Solvable(n)
    <3> HIDE DEF Solvable
    <3> QED OBVIOUS
  <2>2. Solvable(n) => \E f : Solution(T, n, e, g, f)
    BY DEF Solution
  <2> HIDE DEF Bad, Solvable
  <2> QED BY <2>1, <2>2
<1>2. PICK x \in Bad : \A y \in Bad : x <= y
  <2>1. Bad \in SUBSET Nat
    OBVIOUS
  <2> HIDE DEF Bad
  <2> QED BY <1>1, <2>1, Least
<1>3. x # 0
  <2> DEFINE c == [i \in 0..0 |-> e]
  <2>1. c \in [0..0 -> T] /\ Solves(c, 0)
    OBVIOUS
  <2>2. Solvable(0)
    <3> HIDE DEF c
    <3> QED BY <2>1
  <2> HIDE DEF Solvable
  <2> QED BY <2>2
<1>4. PICK f \in [0..x - 1 -> T] : Solves(f, x - 1)
  <2>1. x - 1 \in 0..n /\ ~(x <= x - 1)
    BY <1>3
  <2>2. Solvable(x - 1)
    <3> HIDE DEF Solvable
    <3> QED BY <1>2, <2>1
  <2> QED BY <2>2
<1> DEFINE h == [i \in 0..x |-> IF i = x THEN g[x][f[x - 1]] ELSE f[i]]
<1>5. x \in 1..n /\ x - 1 \in 0..x - 1
  BY <1>2, <1>3
<1>6. h \in [0..x -> T]
  BY <1>4, <1>5
<1>7. h[0] = e
  BY <1>4, <1>5
<1>8. ASSUME NEW i \in 1..x PROVE h[i] = g[i][h[i - 1]]
  <2>1. CASE i = x
    BY <1>5, <2>1
  <2>2. CASE i # x
    <3>1. i \in 1..x - 1 /\ i - 1 \in 0..x /\ i - 1 # x /\ i \in 0..x
      BY <1>5, <2>2
    <3>2. h[i] = f[i] /\ h[i - 1] = f[i - 1]
      BY <2>2, <3>1
    <3> QED BY <1>4, <3>1, <3>2
  <2> QED BY <2>1, <2>2
<1>9. Solvable(x)
  <2>1. Solves(h, x)
    BY <1>7, <1>8
  <2> HIDE DEF h
  <2> QED BY <1>6, <2>1
<1> HIDE DEF Solvable
<1> QED BY <1>2, <1>9

-----------------------------------------------------------------------------
(* Sequences of pools *)

Unique(s) == \A i, k \in DOMAIN s : Addr[s[i]] = Addr[s[k]] => i = k
Distinct(P) == P \subseteq Pools /\ \A p, q \in P : Addr[p] = Addr[q] => p = q

\* The places of a sequence of pools, and the addresses there.
LEMMA PoolAddr ==
    ASSUME NEW s \in Seq(Pools)
    PROVE  /\ Len(s) \in Nat /\ DOMAIN s = 1..Len(s)
           /\ \A i \in 1..Len(s) : s[i] \in Pools /\ Addr[s[i]] \in Nat
<1>1. Len(s) \in Nat /\ DOMAIN s = 1..Len(s) /\ \A i \in 1..Len(s) : s[i] \in Pools
  BY LenProperties, ElementOfSeq
<1> QED BY <1>1 DEF ClusterAssumption

\* An injection of a finite set of numbers into itself reaches each of them.
LEMMA OntoItself ==
    ASSUME NEW n \in Nat, NEW f \in [1..n -> 1..n], IsInjective(f)
    PROVE  \A y \in 1..n : \E x \in 1..n : f[x] = y
<1> DEFINE I == 1..n
<1>1. f \in Injection(I, I)
  BY DEF Injection
<1>2. IsFiniteSet(I)
  BY FS_Interval
<1> HIDE DEF I
<1>3. Cardinality(I) = Cardinality(I) <=> f \in Surjection(I, I)
  BY <1>1, <1>2, FS_Injection
<1>4. \A t \in I : \E x \in I : f[x] = t
  BY <1>3, Fun_SurjectionProperties
<1> QED BY <1>4 DEF I

\* The sequence made of a finite set has each of its elements once.
LEMMA ListOf ==
    ASSUME NEW S, IsFiniteSet(S)
    PROVE  /\ SetToSeq(S) \in Seq(S) /\ ToSet(SetToSeq(S)) = S
           /\ IsInjective(SetToSeq(S))
<1> DEFINE n == Cardinality(S)
           s == SetToSeq(S)
<1>1. n \in Nat /\ ExistsBijection(1..n, S)
  BY FS_CardinalityType
<1>2. \E f \in [1..n -> S] : IsInjective(f)
  <2>1. PICK f : f \in Bijection(1..n, S)
    BY <1>1, Fun_ExistsBij, Zenon
  <2>2. f \in Injection(1..n, S)
    BY <2>1 DEF Bijection
  <2> QED BY <2>2 DEF Injection
<1>3. s \in [1..n -> S] /\ IsInjective(s)
  BY <1>2, Zenon DEF SetToSeq
<1> HIDE DEF s
<1>4. IsFiniteSet(1..n) /\ Cardinality(1..n) = n
  <2> HIDE DEF n
  <2> QED BY <1>1, FS_Interval
<1>5. s \in Surjection(1..n, S)
  <2>1. s \in Injection(1..n, S)
    BY <1>3 DEF Injection
  <2> DEFINE I == 1..n
  <2>2. s \in Injection(I, S) /\ Cardinality(I) = Cardinality(S)
    BY <1>4, <2>1
  <2> HIDE DEF I, n
  <2>3. s \in Surjection(I, S)
    BY <2>2, FS_Injection
  <2> QED BY <2>3 DEF I, n
<1>6. \A t \in S : \E i \in 1..n : s[i] = t
  BY <1>5 DEF Surjection
<1>7. s \in Seq(S) /\ DOMAIN s = 1..n
  <2> HIDE DEF n
  <2> QED BY <1>1, <1>3
<1>8. ToSet(s) = S
  <2> HIDE DEF n
  <2> QED BY <1>3, <1>6, <1>7 DEF ToSet
<1> QED BY <1>3, <1>7, <1>8 DEF s

-----------------------------------------------------------------------------
(* Parts of a sequence of pools.  In the slices that are merged a pool may have *)
(* two places, if it is listed and disabled; X is the set of those.             *)

\* Positions lo + 1..hi hold the pools of P, each at an address of its own and at
\* one place, those of X at two.
Half(ps, lo, hi, P, X) ==
    /\ \A k \in lo + 1..hi : ps[k] \in P
    /\ \A p \in P : \E k \in lo + 1..hi : ps[k] = p
    /\ \A p \in X : \E k, l \in lo + 1..hi : k # l /\ ps[k] = p /\ ps[l] = p
    /\ \A k, l \in lo + 1..hi :
          Addr[ps[k]] = Addr[ps[l]] => k = l \/ (ps[k] = ps[l] /\ ps[k] \in X)

RisingOn(ps, lo, hi) == \A k, l \in lo + 1..hi : k < l => Addr[ps[k]] < Addr[ps[l]]
ClimbingOn(ps, lo, hi) == \A k, l \in lo + 1..hi : k < l => Addr[ps[k]] <= Addr[ps[l]]

-----------------------------------------------------------------------------
(* sort.SliceStable *)

\* Sorting keeps the pools and has the addresses climb.
LEMMA SortedIs ==
    ASSUME NEW s \in Seq(Pools)
    PROVE  /\ Sorted(s) \in Seq(Pools) /\ Len(Sorted(s)) = Len(s)
           /\ ClimbingOn(Sorted(s), 0, Len(s))
           /\ \A P, X : Half(s, 0, Len(s), P, X) => Half(Sorted(s), 0, Len(s), P, X)
<1> DEFINE n == Len(s)
           Below(m, k) == \/ Addr[s[m]] < Addr[s[k]]
                          \/ Addr[s[m]] = Addr[s[k]] /\ m < k
           Before(k) == {m \in DOMAIN s : Below(m, k)}
           Rank(k) == Cardinality(Before(k)) + 1
           At1(x) == CHOOSE k \in DOMAIN s : Rank(k) = x
           t == [x \in DOMAIN s |-> s[At1(x)]]
<1>0. Sorted(s) = t
  BY Zenon DEF Sorted
<1>1. /\ n \in Nat /\ DOMAIN s = 1..n
      /\ \A i \in 1..n : s[i] \in Pools /\ Addr[s[i]] \in Nat
  BY PoolAddr
<1>2. IsFiniteSet(1..n) /\ Cardinality(1..n) = n
  <2> HIDE DEF n
  <2> QED BY <1>1, FS_Interval
<1>3. ASSUME NEW k \in 1..n
      PROVE  IsFiniteSet(Before(k)) /\ Cardinality(Before(k)) \in Nat /\ Rank(k) \in 1..n
  <2>1. Before(k) \in SUBSET ((1..n) \ {k})
    BY <1>1
  <2>2. IsFiniteSet((1..n) \ {k}) /\ Cardinality((1..n) \ {k}) = n - 1
    <3>1. /\ IsFiniteSet((1..n) \ {k})
          /\ Cardinality((1..n) \ {k}) =
               IF k \in 1..n THEN Cardinality(1..n) - 1 ELSE Cardinality(1..n)
      BY <1>2, FS_RemoveElement, Zenon
    <3> QED BY <1>2, <3>1
  <2> HIDE DEF Before
  <2>3. IsFiniteSet(Before(k)) /\ Cardinality(Before(k)) <= Cardinality((1..n) \ {k})
    BY <2>1, <2>2, FS_Subset, Zenon
  <2>4. Cardinality(Before(k)) \in Nat
    BY <2>3, FS_CardinalityType
  <2> HIDE DEF n
  <2> QED BY <1>1, <2>2, <2>3, <2>4
<1>4. ASSUME NEW k \in 1..n, NEW l \in 1..n, Below(k, l)
      PROVE  Rank(k) < Rank(l)
  <2>1. Before(k) \cup {k} \in SUBSET Before(l) /\ k \notin Before(k)
    <3>1. ASSUME NEW m \in 1..n, Below(m, k) PROVE Below(m, l)
      BY <1>1, <1>4, <3>1
    <3>2. ~Below(k, k)
      BY <1>1
    <3> HIDE DEF Below
    <3> QED BY <1>1, <1>4, <3>1, <3>2
  <2> HIDE DEF Before
  <2>2. Cardinality(Before(k) \cup {k}) = Cardinality(Before(k)) + 1
    <3>1. Cardinality(Before(k) \cup {k}) =
            IF k \in Before(k) THEN Cardinality(Before(k)) ELSE Cardinality(Before(k)) + 1
      BY <1>3, FS_AddElement, Zenon
    <3> QED BY <2>1, <3>1
  <2>3. Cardinality(Before(k) \cup {k}) <= Cardinality(Before(l))
    BY <1>3, <2>1, FS_Subset, Zenon
  <2>4. Cardinality(Before(k)) \in Nat /\ Cardinality(Before(l)) \in Nat
    BY <1>3
  <2> QED BY <2>2, <2>3, <2>4
<1>5. \A k, l \in 1..n : Rank(k) = Rank(l) => k = l
  <2>1. ASSUME NEW k \in 1..n, NEW l \in 1..n, Rank(k) = Rank(l) PROVE k = l
    <3>1. Rank(k) \in 1..n /\ Rank(l) \in 1..n
      BY <1>3
    <3> HIDE DEF Rank
    <3>2. ~Below(k, l) /\ ~Below(l, k)
      BY <1>4, <2>1, <3>1
    <3> QED BY <1>1, <3>2
  <2> QED BY <2>1
<1>6. \A x \in 1..n : \E k \in 1..n : Rank(k) = x
  <2> DEFINE f == [k \in 1..n |-> Rank(k)]
  <2> HIDE DEF Rank
  <2>1. f \in [1..n -> 1..n] /\ IsInjective(f)
    BY <1>3, <1>5 DEF IsInjective
  <2>2. \A y \in 1..n : \E x \in 1..n : f[x] = y
    <3> HIDE DEF f, n
    <3> QED BY <1>1, <2>1, OntoItself
  <2> QED BY <2>2
<1>7. \A x \in 1..n : At1(x) \in 1..n /\ Rank(At1(x)) = x
  <2> HIDE DEF Rank
  <2> QED BY <1>1, <1>6
<1> HIDE DEF At1, Rank
<1>8. t \in Seq(Pools) /\ Len(t) = n /\ DOMAIN t = 1..n /\ \A x \in 1..n : t[x] = s[At1(x)]
  <2>1. \A x \in 1..n : s[At1(x)] \in Pools
    BY <1>1, <1>7
  <2> HIDE DEF n
  <2> QED BY <1>1, <2>1
<1> HIDE DEF t
<1>9. ClimbingOn(t, 0, n)
  <2>1. ASSUME NEW x \in 1..n, NEW y \in 1..n, x < y
        PROVE  Addr[t[x]] <= Addr[t[y]]
    <3> DEFINE k == At1(x)
               l == At1(y)
    <3>1. k \in 1..n /\ l \in 1..n /\ Rank(k) = x /\ Rank(l) = y /\ t[x] = s[k] /\ t[y] = s[l]
      BY <1>7, <1>8
    <3> HIDE DEF k, l
    <3>2. ~Below(l, k)
      BY <1>4, <2>1, <3>1
    <3> QED BY <1>1, <3>1, <3>2
  <2> QED BY <2>1 DEF ClimbingOn
<1>10. ASSUME NEW P, NEW X, Half(s, 0, n, P, X) PROVE Half(t, 0, n, P, X)
  <2>1. \A k \in 1..n : Rank(k) \in 1..n /\ At1(Rank(k)) = k
    BY <1>3, <1>5, <1>7
  <2>2. \A k \in 1..n : t[Rank(k)] = s[k]
    BY <1>8, <2>1
  <2> HIDE DEF n
  <2>3. /\ \A k \in 1..n : s[k] \in P
        /\ \A p \in P : \E k \in 1..n : s[k] = p
        /\ \A p \in X : \E k, l \in 1..n : k # l /\ s[k] = p /\ s[l] = p
        /\ \A k, l \in 1..n :
              Addr[s[k]] = Addr[s[l]] => k = l \/ (s[k] = s[l] /\ s[k] \in X)
    BY <1>10 DEF Half
  <2>4. \A x \in 1..n : t[x] \in P
    BY <1>7, <1>8, <2>3
  <2>5. \A p \in P : \E x \in 1..n : t[x] = p
    BY <2>1, <2>2, <2>3
  <2>6. ASSUME NEW p \in X PROVE \E x, y \in 1..n : x # y /\ t[x] = p /\ t[y] = p
    <3>1. PICK k \in 1..n, l \in 1..n : k # l /\ s[k] = p /\ s[l] = p
      BY <2>3
    <3>2. Rank(k) # Rank(l) /\ t[Rank(k)] = p /\ t[Rank(l)] = p
      BY <1>5, <2>2, <3>1
    <3> QED BY <2>1, <3>2
  <2>7. ASSUME NEW x \in 1..n, NEW y \in 1..n, Addr[t[x]] = Addr[t[y]]
        PROVE  x = y \/ (t[x] = t[y] /\ t[x] \in X)
    <3> DEFINE k == At1(x)
               l == At1(y)
    <3>1. k \in 1..n /\ l \in 1..n /\ Rank(k) = x /\ Rank(l) = y /\ t[x] = s[k] /\ t[y] = s[l]
      BY <1>7, <1>8
    <3> HIDE DEF k, l
    <3> QED BY <2>3, <2>7, <3>1
  <2> QED BY <2>4, <2>5, <2>6, <2>7 DEF Half
<1> QED BY <1>0, <1>8, <1>9, <1>10

-----------------------------------------------------------------------------
(* The turns of the merge, for a source in which no address is repeated.  M is *)
(* the length of the source half, N that of both; S and D are the sets of      *)
(* pools given and known.                                                      *)

Apart(ps, a, b) == \A k, l \in a + 1..b : Addr[ps[k]] = Addr[ps[l]] => k = l
Under(ps, I, J) == \A k \in I, l \in J : Addr[ps[k]] < Addr[ps[l]]
AllIn(ps, lo, hi, P) == \A k \in lo + 1..hi : Addr[ps[k]] \in Addrs(P)
NoneIn(ps, lo, hi, P) == \A k \in lo + 1..hi : Addr[ps[k]] \notin Addrs(P)

\* The items of I have an address of one of those at lo + 1..hi.
Matched(ps, I, lo, hi) == \A k \in I : \E l \in lo + 1..hi : Addr[ps[l]] = Addr[ps[k]]

\* What is removed was not given, or an item of its address is kept.
Spare(ps, I, lo, hi, P) ==
    \A k \in I : Addr[ps[k]] \notin Addrs(P) \/ \E l \in lo + 1..hi : Addr[ps[l]] = Addr[ps[k]]

\* What is left of each half is sorted, and what is left of the source is below what
\* was taken from the other.
Ordered(ps, i, j, M, N) ==
    /\ RisingOn(ps, 0, i) /\ ClimbingOn(ps, M, j) /\ Under(ps, 1..i, j + 1..N)

\* What was taken is where the result, the created and the removed items are.
Parted(ps, i, j, cr, rm, M, N, S, D) ==
    /\ Matched(ps, i + 1..cr, j, rm) /\ NoneIn(ps, cr, M, D)
    /\ AllIn(ps, j, rm, S) /\ Spare(ps, rm + 1..N, j, rm, S)
    /\ Apart(ps, j, rm)

Bounds(ps, i, j, cr, rm, M, N) ==
    /\ ps \in [1..N -> Pools]
    /\ i \in 0..cr /\ cr \in 0..M /\ j \in M..rm /\ rm \in M..N

Progress(ps, i, j, cr, rm, M, N, S, D, X) ==
    /\ Bounds(ps, i, j, cr, rm, M, N)
    /\ Half(ps, 0, M, S, {}) /\ Half(ps, M, N, D, X)
    /\ Ordered(ps, i, j, M, N)
    /\ Parted(ps, i, j, cr, rm, M, N, S, D)

\* A swap permutes the half that it is in.
Swapped(ps, q, a, b, N) ==
    /\ q \in [1..N -> Pools] /\ q[a] = ps[b] /\ q[b] = ps[a]
    /\ \A k \in 1..N : k # a /\ k # b => q[k] = ps[k]

\* What the swap of two positions does.
LEMMA SwapMeans ==
    ASSUME NEW N \in Nat, NEW ps \in [1..N -> Pools], NEW a \in 1..N, NEW b \in 1..N
    PROVE  Swapped(ps, Swap(ps, a, b), a, b, N)
BY DEF Swap, Swapped

\* A half keeps its pools when two of its positions are swapped.
LEMMA SwapHalf ==
    ASSUME NEW N \in Nat, NEW lo \in 0..N, NEW hi \in 0..N, NEW P, NEW X,
           NEW ps \in [1..N -> Pools], NEW a \in lo + 1..hi, NEW b \in lo + 1..hi,
           Half(ps, lo, hi, P, X)
    PROVE  Half(Swap(ps, a, b), lo, hi, P, X)
<1> DEFINE q == Swap(ps, a, b)
           h(k) == IF k = a THEN b ELSE IF k = b THEN a ELSE k
<1>1. a \in 1..N /\ b \in 1..N /\ \A k \in lo + 1..hi : k \in 1..N
  OBVIOUS
<1>2. Swapped(ps, q, a, b, N)
  BY <1>1, SwapMeans
<1> HIDE DEF q
<1>3. \A k \in lo + 1..hi : h(k) \in lo + 1..hi /\ q[k] = ps[h(k)] /\ q[h(k)] = ps[k]
  BY <1>1, <1>2 DEF Swapped
<1>4. \A k, l \in lo + 1..hi : h(k) = h(l) => k = l
  OBVIOUS
<1> HIDE DEF h
<1>5. \A k \in lo + 1..hi : q[k] \in P
  BY <1>3 DEF Half
<1>6. ASSUME NEW p \in P PROVE \E k \in lo + 1..hi : q[k] = p
  <2>1. PICK k \in lo + 1..hi : ps[k] = p
    BY DEF Half
  <2> QED BY <1>3, <2>1
<1>7. ASSUME NEW p \in X
      PROVE  \E k, l \in lo + 1..hi : k # l /\ q[k] = p /\ q[l] = p
  <2>1. PICK k \in lo + 1..hi, l \in lo + 1..hi : k # l /\ ps[k] = p /\ ps[l] = p
    BY DEF Half
  <2>2. h(k) # h(l) /\ q[h(k)] = p /\ q[h(l)] = p
    BY <1>3, <1>4, <2>1
  <2> QED BY <1>3, <2>2
<1>8. ASSUME NEW k \in lo + 1..hi, NEW l \in lo + 1..hi, Addr[q[k]] = Addr[q[l]]
      PROVE  k = l \/ (q[k] = q[l] /\ q[k] \in X)
  <2>1. h(k) \in lo + 1..hi /\ h(l) \in lo + 1..hi /\ q[k] = ps[h(k)] /\ q[l] = ps[h(l)]
    BY <1>3
  <2>2. h(k) = h(l) \/ (ps[h(k)] = ps[h(l)] /\ ps[h(k)] \in X)
    BY <1>8, <2>1 DEF Half
  <2> QED BY <1>4, <2>1, <2>2
<1>9. Half(q, lo, hi, P, X)
  BY <1>5, <1>6, <1>7, <1>8 DEF Half
<1> QED BY <1>9 DEF q

\* What is said of positions that have not changed still holds, and what is said
\* of an interval holds of a part of it.
Alike(ps, q, lo, hi) == \A k \in lo + 1..hi : q[k] = ps[k]

\* Positions that have not changed keep what is said of them.
LEMMA SameHalf ==
    ASSUME NEW ps, NEW q, NEW lo, NEW hi, NEW P, NEW X, Alike(ps, q, lo, hi)
    PROVE  /\ Half(ps, lo, hi, P, X) => Half(q, lo, hi, P, X)
           /\ RisingOn(ps, lo, hi) => RisingOn(q, lo, hi)
           /\ ClimbingOn(ps, lo, hi) => ClimbingOn(q, lo, hi)
           /\ AllIn(ps, lo, hi, P) => AllIn(q, lo, hi, P)
           /\ NoneIn(ps, lo, hi, P) => NoneIn(q, lo, hi, P)
           /\ Apart(ps, lo, hi) => Apart(q, lo, hi)
<1>1. ASSUME Half(ps, lo, hi, P, X) PROVE Half(q, lo, hi, P, X)
  <2>1. \A k \in lo + 1..hi : q[k] = ps[k]
    BY DEF Alike
  <2> QED BY <1>1, <2>1 DEF Half
<1>2. RisingOn(ps, lo, hi) => RisingOn(q, lo, hi)
  BY DEF RisingOn, Alike
<1>3. ClimbingOn(ps, lo, hi) => ClimbingOn(q, lo, hi)
  BY DEF ClimbingOn, Alike
<1>4. AllIn(ps, lo, hi, P) => AllIn(q, lo, hi, P)
  BY DEF AllIn, Alike
<1>5. NoneIn(ps, lo, hi, P) => NoneIn(q, lo, hi, P)
  BY DEF NoneIn, Alike
<1>6. Apart(ps, lo, hi) => Apart(q, lo, hi)
  BY DEF Apart, Alike
<1> QED BY <1>1, <1>2, <1>3, <1>4, <1>5, <1>6

UnderTop(ps, lo, hi) == \A k \in lo + 1..hi - 1 : Addr[ps[k]] < Addr[ps[hi]]
NotOverTop(ps, lo, hi) == \A k \in lo + 1..hi - 1 : Addr[ps[k]] <= Addr[ps[hi]]

\* What rises still does without its last item, which is above the others.
LEMMA RisingPart ==
    ASSUME NEW ps, NEW lo \in Int, NEW hi \in Int, RisingOn(ps, lo, hi)
    PROVE  RisingOn(ps, lo, hi - 1) /\ UnderTop(ps, lo, hi)
<1>1. \A k \in lo + 1..hi - 1 : k \in lo + 1..hi
  OBVIOUS
<1>2. RisingOn(ps, lo, hi - 1)
  BY <1>1, Zenon DEF RisingOn
<1>3. \A k \in lo + 1..hi - 1 : k < hi /\ hi \in lo + 1..hi
  OBVIOUS
<1>4. \A k \in lo + 1..hi - 1 : Addr[ps[k]] < Addr[ps[hi]]
  BY <1>1, <1>3, Zenon DEF RisingOn
<1> QED BY <1>2, <1>4 DEF UnderTop

\* So does what climbs, and its last item is not below the others.
LEMMA ClimbingPart ==
    ASSUME NEW ps, NEW lo \in Int, NEW hi \in Int, ClimbingOn(ps, lo, hi)
    PROVE  ClimbingOn(ps, lo, hi - 1) /\ NotOverTop(ps, lo, hi)
<1>1. \A k \in lo + 1..hi - 1 : k \in lo + 1..hi
  OBVIOUS
<1>2. ClimbingOn(ps, lo, hi - 1)
  BY <1>1, Zenon DEF ClimbingOn
<1>3. \A k \in lo + 1..hi - 1 : k < hi /\ hi \in lo + 1..hi
  OBVIOUS
<1>4. \A k \in lo + 1..hi - 1 : Addr[ps[k]] <= Addr[ps[hi]]
  BY <1>1, <1>3, Zenon DEF ClimbingOn
<1> QED BY <1>2, <1>4 DEF NotOverTop

\* An address that no position of a half has is not an address of its pools.
LEMMA OnlyLeft ==
    ASSUME NEW ps, NEW lo, NEW hi, NEW P, NEW X, NEW a,
           Half(ps, lo, hi, P, X), \A k \in lo + 1..hi : Addr[ps[k]] # a
    PROVE  a \notin Addrs(P)
BY DEF Half, Addrs

\* A turn that takes the last item left of the destination: it is removed.
LEMMA DropKeeps ==
    ASSUME NEW N \in Nat, NEW M \in 0..N, NEW S, NEW D, NEW X,
           NEW ps, NEW i, NEW j, NEW cr, NEW rm,
           Progress(ps, i, j, cr, rm, M, N, S, D, X),
           j > M, i > 0 => Addr[ps[i]] < Addr[ps[j]]
    PROVE  Progress(Swap(ps, rm, j), i, j - 1, cr, rm - 1, M, N, S, D, X)
<1> DEFINE q == Swap(ps, rm, j)
<1>1. /\ ps \in [1..N -> Pools] /\ i \in 0..M /\ cr \in 0..M /\ i <= cr
      /\ j \in M + 1..rm /\ rm \in M + 1..N /\ j \in 1..N /\ rm \in 1..N
  BY DEF Progress, Bounds
<1>2. Swapped(ps, q, rm, j, N)
  BY <1>1, SwapMeans
<1>3. Half(q, M, N, D, X)
  BY <1>1, SwapHalf DEF Progress
<1> HIDE DEF q
<1>4. Half(q, 0, M, S, {})
  <2>1. Alike(ps, q, 0, M)
    BY <1>1, <1>2 DEF Swapped, Alike
  <2> QED BY <2>1, SameHalf DEF Progress
<1>5. Bounds(q, i, j - 1, cr, rm - 1, M, N)
  BY <1>1, <1>2 DEF Bounds, Swapped
<1>6. \A k \in 1..N : Addr[ps[k]] \in Nat
  BY <1>1 DEF ClusterAssumption
<1>7. \A k \in 1..i : Addr[ps[k]] < Addr[ps[j]]
  <2>1. RisingOn(ps, 0, i)
    BY DEF Progress, Ordered
  <2>2. UnderTop(ps, 0, i)
    BY <1>1, <2>1, RisingPart
  <2> QED BY <1>1, <1>6, <2>2 DEF UnderTop
<1>8. Ordered(q, i, j - 1, M, N)
  <2>1. RisingOn(q, 0, i)
    <3>1. RisingOn(ps, 0, i) /\ Alike(ps, q, 0, i)
      BY <1>1, <1>2 DEF Progress, Ordered, Alike, Swapped
    <3> QED BY <3>1, SameHalf
  <2>2. ClimbingOn(q, M, j - 1)
    <3>1. ClimbingOn(ps, M, j) /\ Alike(ps, q, M, j - 1)
      BY <1>1, <1>2 DEF Progress, Ordered, Alike, Swapped
    <3>2. ClimbingOn(ps, M, j - 1)
      BY <1>1, <3>1, ClimbingPart
    <3> QED BY <3>1, <3>2, SameHalf
  <2>3. Under(q, 1..i, j..N)
    <3>1. Under(ps, 1..i, j + 1..N)
      BY DEF Progress, Ordered
    <3>2. ASSUME NEW k \in 1..i, NEW l \in j..N
          PROVE  Addr[q[k]] < Addr[q[l]]
      <4>1. q[k] = ps[k]
        BY <1>1, <1>2 DEF Swapped
      <4>2. CASE l = rm
        BY <1>2, <1>7, <4>1, <4>2 DEF Swapped
      <4>3. CASE l # rm /\ l = j
        <5>1. q[l] = ps[rm] /\ rm \in j + 1..N
          BY <1>1, <1>2, <4>3 DEF Swapped
        <5> QED BY <3>1, <4>1, <5>1 DEF Under
      <4>4. CASE l # rm /\ l # j
        <5>1. q[l] = ps[l] /\ l \in j + 1..N
          BY <1>1, <1>2, <4>4 DEF Swapped
        <5> QED BY <3>1, <4>1, <5>1 DEF Under
      <4> QED BY <4>2, <4>3, <4>4
    <3> QED BY <3>2 DEF Under
  <2>4. j - 1 + 1 = j
    BY <1>1
  <2> QED BY <2>1, <2>2, <2>3, <2>4 DEF Ordered
<1>9. Addr[ps[j]] \notin Addrs(S) \/ \E l \in j + 1..rm : Addr[ps[l]] = Addr[ps[j]]
  <2>1. SUFFICES ASSUME Addr[ps[j]] \in Addrs(S)
                 PROVE  \E l \in j + 1..rm : Addr[ps[l]] = Addr[ps[j]]
    OBVIOUS
  <2>2. Half(ps, 0, M, S, {}) /\ Half(ps, M, N, D, X)
    BY DEF Progress
  <2>3. PICK k \in 0 + 1..M : Addr[ps[k]] = Addr[ps[j]]
    BY <2>1, <2>2 DEF Addrs, Half
  <2>4. ~(k \in 1..i)
    BY <1>1, <1>6, <1>7, <2>3
  <2>5. ps[j] \in D
    BY <1>1, <2>2 DEF Half
  <2>6. ~(k \in cr + 1..M)
    BY <2>3, <2>5 DEF Progress, Parted, NoneIn, Addrs
  <2>7. k \in i + 1..cr
    BY <1>1, <2>4, <2>6
  <2> QED BY <2>3, <2>7 DEF Progress, Parted, Matched
<1>10. Parted(q, i, j - 1, cr, rm - 1, M, N, S, D)
  <2> DEFINE g(k) == IF k = j THEN rm ELSE k
  <2>0. Parted(ps, i, j, cr, rm, M, N, S, D)
    BY DEF Progress
  <2>1. ASSUME NEW k \in j - 1 + 1..rm - 1 PROVE g(k) \in j + 1..rm /\ q[k] = ps[g(k)]
    BY <1>1, <1>2 DEF Swapped
  <2>2. ASSUME NEW k \in j - 1 + 1..rm - 1, NEW l \in j - 1 + 1..rm - 1, g(k) = g(l)
        PROVE  k = l
    BY <1>1, <2>2
  <2>3. ASSUME NEW l \in j + 1..rm PROVE \E k \in j - 1 + 1..rm - 1 : q[k] = ps[l]
    <3>1. CASE l = rm
      <4>1. j \in j - 1 + 1..rm - 1
        BY <1>1, <3>1
      <4> QED BY <1>2, <3>1, <4>1 DEF Swapped
    <3>2. CASE l # rm
      <4>1. l \in j - 1 + 1..rm - 1 /\ l \in 1..N /\ l # j
        BY <1>1, <3>2
      <4> QED BY <1>2, <3>2, <4>1 DEF Swapped
    <3> QED BY <3>1, <3>2
  <2> HIDE DEF g
  <2>4. Matched(q, i + 1..cr, j - 1, rm - 1)
    <3>1. ASSUME NEW k \in i + 1..cr
          PROVE  \E l \in j - 1 + 1..rm - 1 : Addr[q[l]] = Addr[q[k]]
      <4>1. q[k] = ps[k]
        BY <1>1, <1>2 DEF Swapped
      <4>2. PICK l \in j + 1..rm : Addr[ps[l]] = Addr[ps[k]]
        BY <2>0 DEF Parted, Matched
      <4> QED BY <2>3, <4>1, <4>2
    <3> QED BY <3>1 DEF Matched
  <2>5. NoneIn(q, cr, M, D)
    <3>1. Alike(ps, q, cr, M)
      BY <1>1, <1>2 DEF Alike, Swapped
    <3> QED BY <2>0, <3>1, SameHalf DEF Parted
  <2>6. AllIn(q, j - 1, rm - 1, S)
    BY <2>0, <2>1 DEF Parted, AllIn
  <2>7. Spare(q, rm - 1 + 1..N, j - 1, rm - 1, S)
    <3>1. ASSUME NEW k \in rm - 1 + 1..N
          PROVE  \/ Addr[q[k]] \notin Addrs(S)
                 \/ \E l \in j - 1 + 1..rm - 1 : Addr[q[l]] = Addr[q[k]]
      <4>1. \/ Addr[q[k]] \notin Addrs(S)
            \/ \E l \in j + 1..rm : Addr[ps[l]] = Addr[q[k]]
        <5>1. CASE k = rm
          BY <1>2, <1>9, <5>1 DEF Swapped
        <5>2. CASE k # rm
          <6>1. k \in rm + 1..N /\ q[k] = ps[k]
            BY <1>1, <1>2, <5>2 DEF Swapped
          <6> QED BY <2>0, <6>1 DEF Parted, Spare
        <5> QED BY <5>1, <5>2
      <4> QED BY <2>3, <4>1
    <3> QED BY <3>1 DEF Spare
  <2>8. Apart(q, j - 1, rm - 1)
    <3>1. ASSUME NEW k \in j - 1 + 1..rm - 1, NEW l \in j - 1 + 1..rm - 1,
                 Addr[q[k]] = Addr[q[l]]
          PROVE  k = l
      <4>1. g(k) = g(l)
        BY <2>0, <2>1, <3>1 DEF Parted, Apart
      <4> QED BY <2>2, <4>1
    <3> QED BY <3>1 DEF Apart
  <2> QED BY <2>4, <2>5, <2>6, <2>7, <2>8 DEF Parted
<1>11. Progress(q, i, j - 1, cr, rm - 1, M, N, S, D, X)
  BY <1>3, <1>4, <1>5, <1>8, <1>10 DEF Progress
<1> QED BY <1>11 DEF q

\* A turn that takes the last item left of the source: it is created.
LEMMA CreateKeeps ==
    ASSUME NEW N \in Nat, NEW M \in 0..N, NEW S, NEW D, NEW X,
           NEW ps, NEW i, NEW j, NEW cr, NEW rm,
           Progress(ps, i, j, cr, rm, M, N, S, D, X),
           i > 0, j > M => Addr[ps[i]] > Addr[ps[j]]
    PROVE  Progress(Swap(ps, cr, i), i - 1, j, cr - 1, rm, M, N, S, D, X)
<1> DEFINE q == Swap(ps, cr, i)
<1>1. /\ ps \in [1..N -> Pools] /\ i \in 1..cr /\ cr \in 1..M /\ i \in 1..N /\ cr \in 1..N
      /\ j \in M..rm /\ rm \in M..N
  BY DEF Progress, Bounds
<1>2. Swapped(ps, q, cr, i, N)
  BY <1>1, SwapMeans
<1>3. Half(q, 0, M, S, {})
  <2> DEFINE lo == 0
  <2>1. lo \in 0..N /\ cr \in lo + 1..M /\ i \in lo + 1..M
    BY <1>1
  <2>2. Half(ps, lo, M, S, {})
    BY DEF Progress
  <2> HIDE DEF lo
  <2>3. Half(q, lo, M, S, {})
    BY <1>1, <2>1, <2>2, SwapHalf
  <2> QED BY <2>3 DEF lo
<1> HIDE DEF q
<1>4. Half(q, M, N, D, X)
  <2>1. Alike(ps, q, M, N)
    BY <1>1, <1>2 DEF Swapped, Alike
  <2> QED BY <2>1, SameHalf DEF Progress
<1>5. Bounds(q, i - 1, j, cr - 1, rm, M, N)
  BY <1>1, <1>2 DEF Bounds, Swapped
<1>6. \A k \in 1..N : Addr[ps[k]] \in Nat
  BY <1>1 DEF ClusterAssumption
<1>7. \A k \in M + 1..j : Addr[ps[k]] < Addr[ps[i]]
  <2>1. ClimbingOn(ps, M, j)
    BY DEF Progress, Ordered
  <2>2. NotOverTop(ps, M, j)
    BY <1>1, <2>1, ClimbingPart
  <2> QED BY <1>1, <1>6, <2>2 DEF NotOverTop
<1>8. Ordered(q, i - 1, j, M, N)
  <2>1. RisingOn(q, 0, i - 1)
    <3>1. RisingOn(ps, 0, i) /\ Alike(ps, q, 0, i - 1)
      BY <1>1, <1>2 DEF Progress, Ordered, Alike, Swapped
    <3>2. RisingOn(ps, 0, i - 1)
      BY <1>1, <3>1, RisingPart
    <3> QED BY <3>1, <3>2, SameHalf
  <2>2. ClimbingOn(q, M, j)
    <3>1. ClimbingOn(ps, M, j) /\ Alike(ps, q, M, j)
      BY <1>1, <1>2 DEF Progress, Ordered, Alike, Swapped
    <3> QED BY <3>1, SameHalf
  <2>3. Under(q, 1..i - 1, j + 1..N)
    <3>1. Under(ps, 1..i, j + 1..N)
      BY DEF Progress, Ordered
    <3> QED BY <1>1, <1>2, <3>1 DEF Under, Swapped
  <2> QED BY <2>1, <2>2, <2>3 DEF Ordered
<1>9. Addr[ps[i]] \notin Addrs(D)
  <2>1. Under(ps, 1..i, j + 1..N) /\ Half(ps, M, N, D, X)
    BY DEF Progress, Ordered
  <2>2. \A k \in M + 1..N : Addr[ps[k]] # Addr[ps[i]]
    <3>1. ASSUME NEW k \in M + 1..N PROVE Addr[ps[k]] # Addr[ps[i]]
      <4>1. CASE k <= j
        BY <1>1, <1>6, <1>7, <4>1
      <4>2. CASE ~(k <= j)
        <5>1. k \in j + 1..N /\ i \in 1..i
          BY <1>1, <4>2
        <5>2. Addr[ps[i]] < Addr[ps[k]] /\ Addr[ps[i]] \in Nat
          BY <1>1, <1>6, <2>1, <5>1 DEF Under
        <5> QED BY <5>2
      <4> QED BY <4>1, <4>2
    <3> QED BY <3>1
  <2> QED BY <2>1, <2>2, OnlyLeft, Zenon
<1>10. Parted(q, i - 1, j, cr - 1, rm, M, N, S, D)
  <2>0. Parted(ps, i, j, cr, rm, M, N, S, D)
    BY DEF Progress
  <2>1. AllIn(q, j, rm, S) /\ Apart(q, j, rm)
    <3>1. Alike(ps, q, j, rm)
      BY <1>1, <1>2 DEF Alike, Swapped
    <3> QED BY <2>0, <3>1, SameHalf DEF Parted
  <2>2. \A k \in M + 1..N : q[k] = ps[k]
    BY <1>1, <1>2 DEF Swapped
  <2>3. Spare(q, rm + 1..N, j, rm, S)
    <3>1. (\A k \in rm + 1..N : k \in M + 1..N) /\ (\A k \in j + 1..rm : k \in M + 1..N)
      BY <1>1
    <3> QED BY <2>0, <2>2, <3>1 DEF Parted, Spare
  <2>4. Matched(q, i - 1 + 1..cr - 1, j, rm)
    <3>1. ASSUME NEW k \in i - 1 + 1..cr - 1
          PROVE  \E l \in j + 1..rm : Addr[q[l]] = Addr[q[k]]
      <4>1. PICK x \in i + 1..cr : q[k] = ps[x]
        <5>1. CASE k = i
          <6>1. q[k] = ps[cr] /\ cr \in i + 1..cr
            BY <1>1, <1>2, <5>1 DEF Swapped
          <6> QED BY <6>1
        <5>2. CASE k # i
          <6>1. k \in i + 1..cr /\ q[k] = ps[k]
            BY <1>1, <1>2, <5>2 DEF Swapped
          <6> QED BY <6>1
        <5> QED BY <5>1, <5>2
      <4>2. PICK l \in j + 1..rm : Addr[ps[l]] = Addr[ps[x]]
        BY <2>0 DEF Parted, Matched
      <4>3. l \in M + 1..N
        BY <1>1
      <4> QED BY <2>2, <4>1, <4>2, <4>3
    <3> QED BY <3>1 DEF Matched
  <2>5. NoneIn(q, cr - 1, M, D)
    <3>1. NoneIn(ps, cr, M, D)
      BY <2>0 DEF Parted
    <3>2. ASSUME NEW k \in cr - 1 + 1..M PROVE Addr[q[k]] \notin Addrs(D)
      <4>1. CASE k = cr
        BY <1>2, <1>9, <4>1 DEF Swapped
      <4>2. CASE k # cr
        <5>1. k \in cr + 1..M /\ q[k] = ps[k]
          BY <1>1, <1>2, <4>2 DEF Swapped
        <5> QED BY <3>1, <5>1 DEF NoneIn
      <4> QED BY <4>1, <4>2
    <3> QED BY <3>2 DEF NoneIn
  <2> QED BY <2>1, <2>3, <2>4, <2>5 DEF Parted
<1>11. Progress(q, i - 1, j, cr - 1, rm, M, N, S, D, X)
  BY <1>3, <1>4, <1>5, <1>8, <1>10 DEF Progress
<1> QED BY <1>11 DEF q

\* A turn that takes both, which have the same address: it is kept.
LEMMA KeepKeeps ==
    ASSUME NEW N \in Nat, NEW M \in 0..N, NEW S, NEW D, NEW X,
           NEW ps, NEW i, NEW j, NEW cr, NEW rm,
           Progress(ps, i, j, cr, rm, M, N, S, D, X),
           i > 0, j > M, Addr[ps[i]] = Addr[ps[j]]
    PROVE  Progress(ps, i - 1, j - 1, cr, rm, M, N, S, D, X)
<1>1. /\ ps \in [1..N -> Pools] /\ i \in 1..cr /\ cr \in 1..M
      /\ j \in M + 1..rm /\ rm \in M + 1..N
  BY DEF Progress, Bounds
<1>2. Bounds(ps, i - 1, j - 1, cr, rm, M, N)
  BY <1>1 DEF Bounds
<1>3. Ordered(ps, i - 1, j - 1, M, N)
  <2>1. RisingOn(ps, 0, i) /\ ClimbingOn(ps, M, j)
    BY DEF Progress, Ordered
  <2>2. RisingOn(ps, 0, i - 1) /\ ClimbingOn(ps, M, j - 1)
    BY <1>1, <2>1, RisingPart, ClimbingPart
  <2>3. Under(ps, 1..i - 1, j..N)
    <3>1. Under(ps, 1..i, j + 1..N)
      BY DEF Progress, Ordered
    <3>2. UnderTop(ps, 0, i)
      BY <1>1, <2>1, RisingPart
    <3>3. ASSUME NEW k \in 1..i - 1, NEW l \in j..N PROVE Addr[ps[k]] < Addr[ps[l]]
      <4>1. CASE l = j
        BY <1>1, <3>2, <4>1 DEF UnderTop
      <4>2. CASE l # j
        BY <1>1, <3>1, <4>2 DEF Under
      <4> QED BY <4>1, <4>2
    <3> QED BY <3>3 DEF Under
  <2>4. j - 1 + 1 = j
    BY <1>1
  <2> QED BY <2>2, <2>3, <2>4 DEF Ordered
<1>4. Addr[ps[j]] \in Addrs(S)
  <2>1. Half(ps, 0, M, S, {})
    BY DEF Progress
  <2>2. ps[i] \in S
    BY <1>1, <2>1 DEF Half
  <2> QED BY <2>2 DEF Addrs
<1>5. Parted(ps, i - 1, j - 1, cr, rm, M, N, S, D)
  <2>1. Parted(ps, i, j, cr, rm, M, N, S, D)
    BY DEF Progress
  <2>2. (\A l \in j + 1..rm : l \in j - 1 + 1..rm) /\ j \in j - 1 + 1..rm
    BY <1>1
  <2>3. /\ \A k \in j - 1 + 1..rm : k = j \/ k \in j + 1..rm
        /\ \A k \in i - 1 + 1..cr : k = i \/ k \in i + 1..cr
    BY <1>1
  <2>4. Matched(ps, i - 1 + 1..cr, j - 1, rm)
    BY <2>1, <2>2, <2>3 DEF Parted, Matched
  <2>5. AllIn(ps, j - 1, rm, S)
    BY <1>4, <2>1, <2>3 DEF Parted, AllIn
  <2>6. Spare(ps, rm + 1..N, j - 1, rm, S)
    BY <2>1, <2>2 DEF Parted, Spare
  <2>7. \A l \in j + 1..rm : Addr[ps[l]] # Addr[ps[j]]
    <3>1. \A l \in j + 1..rm : i \in 1..i /\ l \in j + 1..N /\ Addr[ps[i]] \in Nat
      BY <1>1 DEF ClusterAssumption
    <3>2. \A l \in j + 1..rm : Addr[ps[i]] < Addr[ps[l]]
      BY <3>1 DEF Progress, Ordered, Under
    <3> QED BY <3>1, <3>2
  <2>8. Apart(ps, j - 1, rm)
    BY <2>1, <2>3, <2>7 DEF Parted, Apart
  <2> QED BY <2>1, <2>4, <2>5, <2>6, <2>8 DEF Parted
<1> QED BY <1>2, <1>3, <1>5 DEF Progress

-----------------------------------------------------------------------------
(* The whole merge *)

MergeStates(M, N) ==
    [ps : [1..N -> Pools], mid : {M}, i : Nat, j : Nat, dp : {0}, cr : Nat, rm : Nat]

MergeOK(m, M, N, S, D, X) ==
    m \in MergeStates(M, N) /\ Progress(m.ps, m.i, m.j, m.cr, m.rm, M, N, S, D, X)

\* The items that the loops have still to take.
Left(m) == m.i + m.j - m.mid

\* The numbers of the merge at any turn.
LEMMA BoundsOf ==
    ASSUME NEW M \in Nat, NEW N \in Nat, NEW S, NEW D, NEW X, NEW m, MergeOK(m, M, N, S, D, X)
    PROVE  /\ m.i \in 0..M /\ m.j \in M..N /\ m.cr \in 0..M /\ m.rm \in M..N
           /\ m.i <= m.cr /\ m.j <= m.rm /\ m.mid = M /\ m.dp = 0 /\ M <= N
           /\ m.ps \in [1..N -> Pools]
<1>1. Bounds(m.ps, m.i, m.j, m.cr, m.rm, M, N)
  BY DEF MergeOK, Progress
<1>2. m.mid = M /\ m.dp = 0
  BY DEF MergeOK, MergeStates
<1> QED BY <1>1, <1>2 DEF Bounds

\* No address is repeated in the source half: a turn never dedups.
LEMMA NoDuplicate ==
    ASSUME NEW M \in Nat, NEW N \in Nat, NEW S, NEW D, NEW X, NEW m, MergeOK(m, M, N, S, D, X), m.i > 0
    PROVE  ~Duplicate(m)
<1>1. m.i \in 0..M /\ m.mid = M
  BY BoundsOf
<1>2. Half(m.ps, 0, M, S, {})
  BY DEF MergeOK, Progress
<1>3. m.i < M => Addr[m.ps[m.i + 1]] # Addr[m.ps[m.i]]
  BY <1>1, <1>2 DEF Half
<1> QED BY <1>1, <1>3 DEF Duplicate

\* Each turn keeps the invariant and takes an item as long as one is left.
LEMMA TurnKeeps ==
    ASSUME NEW M \in Nat, NEW N \in Nat, NEW S, NEW D, NEW X, NEW m, MergeOK(m, M, N, S, D, X)
    PROVE  /\ MergeOK(Turn(m), M, N, S, D, X)
           /\ Left(Turn(m)) < Left(m) \/ (Left(m) = 0 /\ Left(Turn(m)) = 0)
<1> DEFINE P(ps, i, j, cr, rm) == Progress(ps, i, j, cr, rm, M, N, S, D, X)
           A(k) == Addr[m.ps[k]]
           src == m.i > 0
           dst == m.j > M
<1>1. /\ m.i \in 0..M /\ m.j \in M..N /\ m.cr \in 0..M /\ m.rm \in M..N /\ M \in 0..N
      /\ m.i <= m.cr /\ m.j <= m.rm /\ m.mid = M /\ m.dp = 0
      /\ m.ps \in [1..N -> Pools]
  BY BoundsOf
<1>2. m \in MergeStates(M, N) /\ P(m.ps, m.i, m.j, m.cr, m.rm)
  BY DEF MergeOK
<1>3. m.i > m.dp <=> src
  BY <1>1
<1>4. m.j > m.mid <=> dst
  BY <1>1
<1>5. /\ m.i > 0 => A(m.i) \in Nat
      /\ m.j > M => A(m.j) \in Nat
  BY <1>1 DEF ClusterAssumption
<1>6. CASE dst /\ (src => A(m.i) < A(m.j))
  <2>1. Turn(m) = Drop(m)
    <3>1. /\ m.j > m.mid
          /\ (m.i > m.dp) => Addr[m.ps[m.i]] < Addr[m.ps[m.j]]
      BY <1>3, <1>4, <1>6
    <3>2. m.i > m.dp => ~(Addr[m.ps[m.i]] > Addr[m.ps[m.j]])
      BY <1>3, <1>4, <1>5, <1>6
    <3>3. m.i > m.dp => Addr[m.ps[m.i]] # Addr[m.ps[m.j]]
      BY <1>3, <1>4, <1>5, <1>6
    <3> QED BY <3>1, <3>2, <3>3, Zenon DEF Turn
  <2> DEFINE u == Drop(m)
             q == Swap(m.ps, m.rm, m.j)
  <2>2. P(q, m.i, m.j - 1, m.cr, m.rm - 1)
    BY <1>1, <1>2, <1>6, DropKeeps
  <2>3. u = [m EXCEPT !.ps = q, !.rm = m.rm - 1, !.j = m.j - 1]
    BY <1>2 DEF Drop, MergeStates
  <2>4. q \in [1..N -> Pools]
    BY <2>2 DEF Progress, Bounds
  <2> HIDE DEF u, q
  <2>5. /\ u \in MergeStates(M, N) /\ u.ps = q /\ u.i = m.i /\ u.j = m.j - 1
        /\ u.cr = m.cr /\ u.rm = m.rm - 1 /\ u.mid = M
    <3>0. m.j > M
      BY <1>6
    <3>1. /\ m.rm \in Nat /\ m.j \in Nat /\ m.i \in Nat /\ m.cr \in Nat
          /\ m.mid = M /\ m.dp = 0 /\ m.rm >= m.j
      BY <1>1
    <3>3. m.rm - 1 \in Nat /\ m.j - 1 \in Nat
      BY <3>0, <3>1
    <3>2. u = [ps |-> q, mid |-> m.mid, i |-> m.i, j |-> m.j - 1, dp |-> m.dp,
               cr |-> m.cr, rm |-> m.rm - 1]
      BY <1>2, <2>3 DEF MergeStates
    <3> QED BY <2>4, <3>1, <3>2, <3>3 DEF MergeStates
  <2>6. MergeOK(u, M, N, S, D, X)
    BY <2>2, <2>5 DEF MergeOK
  <2>7. Left(u) < Left(m)
    BY <1>1, <2>5 DEF Left
  <2> QED BY <2>1, <2>6, <2>7 DEF u
<1>7. CASE ~(dst /\ (src => A(m.i) < A(m.j))) /\ src /\ (dst => A(m.i) > A(m.j))
  <2>1. Turn(m) = Create(m)
    <3>1. ~Duplicate(m)
      BY <1>7, NoDuplicate
    <3> QED BY <1>3, <1>4, <1>7, <3>1, Zenon DEF Turn
  <2> DEFINE u == Create(m)
             q == Swap(m.ps, m.cr, m.i)
  <2>2. P(q, m.i - 1, m.j, m.cr - 1, m.rm)
    BY <1>1, <1>2, <1>7, CreateKeeps
  <2>3. u = [m EXCEPT !.ps = q, !.cr = m.cr - 1, !.i = m.i - 1]
    BY <1>2 DEF Create, MergeStates
  <2>4. q \in [1..N -> Pools]
    BY <2>2 DEF Progress, Bounds
  <2> HIDE DEF u, q
  <2>5. /\ u \in MergeStates(M, N) /\ u.ps = q /\ u.i = m.i - 1 /\ u.j = m.j
        /\ u.cr = m.cr - 1 /\ u.rm = m.rm /\ u.mid = M
    <3>1. /\ m.cr - 1 \in Nat /\ m.i - 1 \in Nat
          /\ m.i \in Nat /\ m.j \in Nat /\ m.cr \in Nat /\ m.rm \in Nat
          /\ m.mid = M /\ m.dp = 0
      BY <1>1, <1>7
    <3>2. u = [ps |-> q, mid |-> m.mid, i |-> m.i - 1, j |-> m.j, dp |-> m.dp,
               cr |-> m.cr - 1, rm |-> m.rm]
      BY <1>2, <2>3 DEF MergeStates
    <3> QED BY <2>4, <3>1, <3>2 DEF MergeStates
  <2>6. MergeOK(u, M, N, S, D, X)
    BY <2>2, <2>5 DEF MergeOK
  <2>7. Left(u) < Left(m)
    BY <1>1, <2>5 DEF Left
  <2> QED BY <2>1, <2>6, <2>7 DEF u
<1>8. CASE src /\ dst /\ A(m.i) = A(m.j)
  <2>1. Turn(m) = Keep(m)
    <3>1. ~(A(m.i) < A(m.j)) /\ ~(A(m.i) > A(m.j))
      BY <1>5, <1>8
    <3> QED BY <1>3, <1>4, <1>8, <3>1, Zenon DEF Turn
  <2> DEFINE u == Keep(m)
  <2>2. P(m.ps, m.i - 1, m.j - 1, m.cr, m.rm)
    BY <1>1, <1>2, <1>8, KeepKeeps
  <2>3. u = [m EXCEPT !.i = m.i - 1, !.j = m.j - 1]
    BY <1>2 DEF Keep, MergeStates
  <2> HIDE DEF u
  <2>5. /\ u \in MergeStates(M, N) /\ u.ps = m.ps /\ u.i = m.i - 1 /\ u.j = m.j - 1
        /\ u.cr = m.cr /\ u.rm = m.rm /\ u.mid = M
    <3>1. /\ m.i - 1 \in Nat /\ m.j - 1 \in Nat
          /\ m.i \in Nat /\ m.j \in Nat /\ m.cr \in Nat /\ m.rm \in Nat
          /\ m.mid = M /\ m.dp = 0
      BY <1>1, <1>8
    <3>2. u = [ps |-> m.ps, mid |-> m.mid, i |-> m.i - 1, j |-> m.j - 1, dp |-> m.dp,
               cr |-> m.cr, rm |-> m.rm]
      BY <1>2, <2>3 DEF MergeStates
    <3> QED BY <1>1, <3>1, <3>2 DEF MergeStates
  <2>6. MergeOK(u, M, N, S, D, X)
    BY <2>2, <2>5 DEF MergeOK
  <2>7. Left(u) < Left(m)
    BY <1>1, <2>5 DEF Left
  <2> QED BY <2>1, <2>6, <2>7 DEF u
<1>9. CASE ~src /\ ~dst
  <2>1. Turn(m) = m
    BY <1>3, <1>4, <1>9, Zenon DEF Turn
  <2>2. Left(m) = 0
    BY <1>1, <1>9 DEF Left
  <2> QED BY <2>1, <2>2
<1> HIDE DEF A
<1>10. QED
  BY <1>5, <1>6, <1>7, <1>8, <1>9

\* A list of the pools of P, each at an address of its own, and a mix in which those
\* of X have two places.
IsListOf(s, P) == s \in Seq(Pools) /\ Unique(s) /\ ToSet(s) = P
IsMixOf(s, P, X) == s \in Seq(Pools) /\ Half(s, 0, Len(s), P, X)

\* A list is a mix in which no pool has two places.
LEMMA ListIsMix ==
    ASSUME NEW s, NEW P, IsListOf(s, P)
    PROVE  IsMixOf(s, P, {})
<1> DEFINE n == Len(s)
<1>1. s \in Seq(Pools) /\ n \in Nat /\ DOMAIN s = 1..n
  BY PoolAddr DEF IsListOf
<1> HIDE DEF n
<1>2. P = {s[k] : k \in 1..n} /\ \A k, l \in 1..n : Addr[s[k]] = Addr[s[l]] => k = l
  BY <1>1 DEF IsListOf, ToSet, Unique
<1>3. 0 + 1..n = 1..n
  OBVIOUS
<1>4. Half(s, 0, n, P, {})
  BY <1>2, <1>3 DEF Half
<1> QED BY <1>1, <1>4 DEF IsMixOf, n

\* The loops start with two sorted halves.
LEMMA StartKeeps ==
    ASSUME NEW dst, NEW src, NEW S, NEW D, NEW X, IsListOf(src, S), IsMixOf(dst, D, X)
    PROVE  /\ MergeOK(Start(dst, src), Len(src), Len(src) + Len(dst), S, D, X)
           /\ Left(Start(dst, src)) = Len(dst) + Len(src)
<1> DEFINE s == Sorted(src)
           d == Sorted(dst)
           M == Len(src)
           L == Len(dst)
           N == Len(src) + Len(dst)
           q == s \o d
           u == Start(dst, src)
<1>0. src \in Seq(Pools) /\ dst \in Seq(Pools)
  BY DEF IsListOf, IsMixOf
<1>1. /\ s \in Seq(Pools) /\ Len(s) = M /\ ClimbingOn(s, 0, M) /\ Half(s, 0, M, S, {})
      /\ d \in Seq(Pools) /\ Len(d) = L /\ ClimbingOn(d, 0, L) /\ Half(d, 0, L, D, X)
  BY <1>0, ListIsMix, SortedIs DEF IsMixOf
<1>2. M \in Nat /\ L \in Nat /\ N \in Nat /\ N = M + L
  BY <1>0, PoolAddr
<1>3. u = [ps |-> q, mid |-> M, i |-> M, j |-> N, dp |-> 0, cr |-> M, rm |-> N]
  BY DEF Start
<1> HIDE DEF s, d, M, N, L, u
<1>4. \A k \in 1..M : Addr[s[k]] \in Nat
  BY <1>1, PoolAddr
<1>5. q \in Seq(Pools) /\ Len(q) = N
      /\ \A k \in 1..N : q[k] = IF k <= M THEN s[k] ELSE d[k - M]
  <2>1. /\ q \in Seq(Pools) /\ Len(q) = Len(s) + Len(d)
        /\ \A k \in 1..Len(s) + Len(d) : q[k] = IF k <= Len(s) THEN s[k] ELSE d[k - Len(s)]
    <3>1. s \in Seq(Pools) /\ d \in Seq(Pools)
      BY <1>1
    <3> QED BY <3>1, ConcatProperties
  <2> HIDE DEF q
  <2> QED BY <1>1, <1>2, <2>1
<1> HIDE DEF q
<1>6. q \in [1..N -> Pools]
  BY <1>5
<1>7. Half(q, 0, M, S, {}) /\ RisingOn(q, 0, M)
  <2>1. Alike(s, q, 0, M)
    BY <1>2, <1>5 DEF Alike
  <2>2. RisingOn(s, 0, M)
    <3>1. ASSUME NEW k \in 0 + 1..M, NEW l \in 0 + 1..M, k < l
          PROVE  Addr[s[k]] < Addr[s[l]]
      <4>1. Addr[s[k]] # Addr[s[l]]
        BY <1>1, <1>2, <3>1 DEF Half
      <4>2. Addr[s[k]] <= Addr[s[l]]
        BY <1>1, <3>1 DEF ClimbingOn
      <4> QED BY <1>2, <1>4, <4>1, <4>2
    <3> QED BY <3>1 DEF RisingOn
  <2> QED BY <1>1, <2>1, <2>2, SameHalf
<1>8. Half(q, M, N, D, X) /\ ClimbingOn(q, M, N)
  <2>0. 0 + 1..L = 1..L
    OBVIOUS
  <2>1. ASSUME NEW k \in M + 1..N PROVE k - M \in 1..L /\ q[k] = d[k - M]
    BY <1>2, <1>5
  <2>2. ASSUME NEW k \in 1..L PROVE M + k \in M + 1..N /\ q[M + k] = d[k]
    <3> DEFINE l == M + k
    <3>1. l \in M + 1..N /\ l \in 1..N /\ ~(l <= M) /\ l - M = k
      BY <1>2
    <3> HIDE DEF l
    <3>2. q[l] = d[k]
      BY <1>5, <3>1
    <3> QED BY <3>1, <3>2 DEF l
  <2>3. ClimbingOn(q, M, N)
    <3>1. ASSUME NEW k \in M + 1..N, NEW l \in M + 1..N, k < l
          PROVE  Addr[q[k]] <= Addr[q[l]]
      <4>1. k - M \in 1..L /\ l - M \in 1..L /\ k - M < l - M
        BY <1>2, <3>1
      <4>2. Addr[d[k - M]] <= Addr[d[l - M]]
        BY <1>1, <2>0, <4>1 DEF ClimbingOn
      <4> QED BY <2>1, <4>2
    <3> QED BY <3>1 DEF ClimbingOn
  <2>4. \A k \in M + 1..N : q[k] \in D
    BY <1>1, <2>0, <2>1 DEF Half
  <2>5. ASSUME NEW p \in D PROVE \E k \in M + 1..N : q[k] = p
    <3>1. PICK k \in 1..L : d[k] = p
      BY <1>1, <2>0 DEF Half
    <3> QED BY <2>2, <3>1
  <2>6. ASSUME NEW p \in X PROVE \E k, l \in M + 1..N : k # l /\ q[k] = p /\ q[l] = p
    <3>1. PICK k \in 1..L, l \in 1..L : k # l /\ d[k] = p /\ d[l] = p
      BY <1>1, <2>0 DEF Half
    <3>2. M + k # M + l
      BY <1>2, <3>1
    <3> QED BY <2>2, <3>1, <3>2
  <2>7. ASSUME NEW k \in M + 1..N, NEW l \in M + 1..N, Addr[q[k]] = Addr[q[l]]
        PROVE  k = l \/ (q[k] = q[l] /\ q[k] \in X)
    <3>1. k - M \in 1..L /\ l - M \in 1..L /\ q[k] = d[k - M] /\ q[l] = d[l - M]
      BY <2>1
    <3>2. k - M = l - M \/ (d[k - M] = d[l - M] /\ d[k - M] \in X)
      BY <1>1, <2>0, <2>7, <3>1 DEF Half
    <3> QED BY <1>2, <3>1, <3>2
  <2> QED BY <2>3, <2>4, <2>5, <2>6, <2>7 DEF Half
<1>9. Ordered(q, M, N, M, N)
  BY <1>2, <1>7, <1>8 DEF Ordered, Under
<1>10. Parted(q, M, N, M, N, M, N, S, D)
  <2>1. /\ M + 1..M = {} /\ N + 1..N = {}
    BY <1>2
  <2> QED BY <2>1 DEF Parted, Matched, NoneIn, AllIn, Spare, Apart
<1>11. Progress(q, M, N, M, N, M, N, S, D, X)
  BY <1>2, <1>6, <1>7, <1>8, <1>9, <1>10 DEF Progress, Bounds
<1>12. u \in MergeStates(M, N)
  BY <1>2, <1>3, <1>6 DEF MergeStates
<1>13. MergeOK(u, M, N, S, D, X)
  BY <1>3, <1>11, <1>12 DEF MergeOK
<1>14. Left(u) = L + M
  BY <1>2, <1>3 DEF Left
<1> QED BY <1>13, <1>14 DEF u, M, N, L

\* After as many turns as there are items, none is left.
LEMMA MergeEnds ==
    ASSUME NEW dst, NEW src, NEW S, NEW D, NEW X, IsListOf(src, S), IsMixOf(dst, D, X)
    PROVE  LET M == Len(src)
               N == Len(src) + Len(dst)
           IN \E m : /\ MergeOK(m, M, N, S, D, X) /\ m.i = 0 /\ m.j = M
                     /\ Merge(dst, src) =
                          [result    |-> SubSeq(m.ps, m.cr + 1, m.rm),
                           untouched |-> SubSeq(m.ps, m.mid + 1, m.rm),
                           inserted  |-> ToSet(SubSeq(m.ps, m.cr + 1, m.mid)),
                           removed   |-> ToSet(SubSeq(m.ps, m.rm + 1, Len(m.ps))),
                           ignored   |-> ToSet(SubSeq(m.ps, 1, m.dp))]
<1> DEFINE M == Len(src)
           N == Len(src) + Len(dst)
           turns == Len(dst) + Len(src)
           e == Start(dst, src)
           T == {m \in MergeStates(M, N) : MergeOK(m, M, N, S, D, X)}
           Eq(h) == h = [n \in 0..turns |-> IF n = 0 THEN Start(dst, src) ELSE Turn(h[n - 1])]
           run == CHOOSE h : Eq(h)
           z == run[turns]
<1>1. M \in Nat /\ N \in Nat /\ turns \in Nat
  BY PoolAddr DEF IsListOf, IsMixOf
<1>2. MergeOK(e, M, N, S, D, X) /\ Left(e) = turns
  BY StartKeeps
<1>3. e \in T
  BY <1>2 DEF MergeOK
<1>4. \A m \in T : /\ MergeOK(m, M, N, S, D, X) /\ Turn(m) \in T
                   /\ Left(Turn(m)) < Left(m) \/ (Left(m) = 0 /\ Left(Turn(m)) = 0)
  <2>1. ASSUME NEW m \in T
        PROVE  /\ MergeOK(m, M, N, S, D, X) /\ Turn(m) \in T
               /\ Left(Turn(m)) < Left(m) \/ (Left(m) = 0 /\ Left(Turn(m)) = 0)
    <3>1. MergeOK(m, M, N, S, D, X)
      OBVIOUS
    <3> HIDE DEF M, N
    <3>2. /\ MergeOK(Turn(m), M, N, S, D, X)
          /\ Left(Turn(m)) < Left(m) \/ (Left(m) = 0 /\ Left(Turn(m)) = 0)
      BY <1>1, <3>1, TurnKeeps
    <3> QED BY <3>1, <3>2 DEF MergeOK
  <2> QED BY <2>1
<1>5. \A m \in T : Left(m) \in Nat
  <2>1. ASSUME NEW m \in T PROVE Left(m) \in Nat
    <3>1. MergeOK(m, M, N, S, D, X)
      OBVIOUS
    <3> HIDE DEF M, N
    <3>2. m.i \in 0..M /\ m.j \in M..N /\ m.mid = M
      BY <1>1, <3>1, BoundsOf
    <3> QED BY <1>1, <3>2 DEF Left
  <2> QED BY <2>1
<1>6. \E f : Eq(f)
  <2> DEFINE g == [k \in 1..turns |-> [t \in T |-> Turn(t)]]
  <2> HIDE DEF T, e, turns
  <2>1. Steps(T, turns, g)
    BY <1>4 DEF Steps
  <2>2. \A k \in 1..turns : \A t \in T : g[k][t] = Turn(t)
    OBVIOUS
  <2> HIDE DEF g
  <2>3. PICK f : Solution(T, turns, e, g, f)
    BY <1>1, <1>3, <2>1, Recursion
  <2>4. /\ f \in [0..turns -> T] /\ f[0] = e
        /\ \A k \in 1..turns : f[k] = Turn(f[k - 1])
    <3>1. \A k \in 1..turns : k - 1 \in 0..turns
      BY <1>1
    <3> QED BY <2>2, <2>3, <3>1 DEF Solution
  <2>5. f = [n \in 0..turns |-> IF n = 0 THEN e ELSE Turn(f[n - 1])]
    <3>1. \A n \in 0..turns : f[n] = IF n = 0 THEN e ELSE Turn(f[n - 1])
      BY <1>1, <2>4
    <3> QED BY <2>4, <3>1
  <2> QED BY <2>5 DEF e
<1>7. Eq(run)
  BY <1>6, Zenon
<1> HIDE DEF run
<1>8. \A n \in 0..turns : run[n] = IF n = 0 THEN e ELSE Turn(run[n - 1])
  <2> HIDE DEF turns
  <2> QED BY <1>7
<1> HIDE DEF Eq, e, T
<1>9. z \in T /\ Left(z) = 0
  <2> DEFINE Good(n) == run[n] \in T /\ Left(run[n]) <= turns - n
             Bad == {n \in 0..turns : ~Good(n)}
  <2> HIDE DEF turns
  <2>1. SUFFICES ASSUME Bad # {} PROVE FALSE
    <3>1. turns \in 0..turns /\ turns - turns = 0
      BY <1>1
    <3>2. (Bad = {}) => Good(turns)
      BY <3>1
    <3>3. Good(turns) => z \in T /\ Left(z) = 0
      BY <1>1, <1>5, <3>1
    <3> HIDE DEF Bad, Good
    <3> QED BY <3>2, <3>3
  <2>2. PICK x \in Bad : \A y \in Bad : x <= y
    <3>1. Bad \in SUBSET Nat
      OBVIOUS
    <3> HIDE DEF Bad
    <3> QED BY <2>1, <3>1, Least
  <2>3. x # 0
    <3>1. 0 \in 0..turns /\ run[0] = e
      BY <1>1, <1>8
    <3>2. Good(0)
      BY <1>1, <1>2, <1>3, <3>1 DEF turns
    <3> HIDE DEF Good
    <3> QED BY <3>2
  <2>4. x \in 1..turns /\ x - 1 \in 0..turns
    <3> HIDE DEF Good
    <3>1. x \in 0..turns
      BY <2>2
    <3> QED BY <1>1, <2>3, <3>1
  <2>5. Good(x - 1)
    <3>1. x - 1 \notin Bad
      BY <2>2, <2>4
    <3> HIDE DEF Good
    <3> QED BY <2>4, <3>1
  <2>6. run[x] = Turn(run[x - 1])
    BY <1>8, <2>4
  <2> DEFINE t == run[x - 1]
  <2>7. t \in T /\ Left(t) <= turns - (x - 1) /\ run[x] = Turn(t)
    BY <2>5, <2>6
  <2> HIDE DEF t
  <2>8. run[x] \in T /\ Left(run[x]) <= turns - x
    <3>1. /\ Turn(t) \in T /\ Left(t) \in Nat /\ Left(Turn(t)) \in Nat
          /\ Left(Turn(t)) < Left(t) \/ (Left(t) = 0 /\ Left(Turn(t)) = 0)
      BY <1>4, <1>5, <2>7
    <3> QED BY <1>1, <2>4, <2>7, <3>1
  <2>9. Good(x) /\ ~Good(x)
    BY <2>2, <2>8
  <2> QED BY <2>9
<1>10. MergeOK(z, M, N, S, D, X)
  BY <1>4, <1>9, Zenon
<1>11. z.i = 0 /\ z.j = M
  <2> HIDE DEF M, N, z
  <2>1. z.i \in 0..M /\ z.j \in M..N /\ z.mid = M
    BY <1>1, <1>10, BoundsOf
  <2> QED BY <1>1, <1>9, <2>1 DEF Left
<1>12. Merge(dst, src) =
          [result    |-> SubSeq(z.ps, z.cr + 1, z.rm),
           untouched |-> SubSeq(z.ps, z.mid + 1, z.rm),
           inserted  |-> ToSet(SubSeq(z.ps, z.cr + 1, z.mid)),
           removed   |-> ToSet(SubSeq(z.ps, z.rm + 1, Len(z.ps))),
           ignored   |-> ToSet(SubSeq(z.ps, 1, z.dp))]
  BY Zenon DEF Merge, run, Eq
<1> HIDE DEF z
<1> QED BY <1>10, <1>11, <1>12, Zenon

\* A piece of the array.
Items(ps, a, b) == {ps[k] : k \in a + 1..b}
PieceOf(t, ps, a, b) ==
    t \in Seq(Pools) /\ ToSet(t) = Items(ps, a, b) /\ (Apart(ps, a, b) => Unique(t))

\* A piece of the merged slice has the items between its bounds.
LEMMA PieceIs ==
    ASSUME NEW N \in Nat, NEW ps \in [1..N -> Pools], NEW a \in 0..N, NEW b \in a..N
    PROVE  PieceOf(SubSeq(ps, a + 1, b), ps, a, b)
<1> DEFINE t == SubSeq(ps, a + 1, b)
<1>1. /\ t \in Seq(Pools) /\ Len(t) = b - a
      /\ \A k \in 1..b - a : t[k] = ps[a + k]
  <2>1. \A k \in a + 1..b : ps[k] \in Pools
    OBVIOUS
  <2>2. a + 1 \in Int /\ b \in Int
    OBVIOUS
  <2>3. /\ t \in Seq(Pools)
        /\ Len(t) = IF a + 1 <= b THEN b - (a + 1) + 1 ELSE 0
        /\ \A k \in 1..b - (a + 1) + 1 : t[k] = ps[(a + 1) + k - 1]
    <3> DEFINE c == a + 1
    <3>1. c \in Int /\ \A k \in c..b : ps[k] \in Pools
      BY <2>1, <2>2
    <3> HIDE DEF c
    <3>2. /\ SubSeq(ps, c, b) \in Seq(Pools)
          /\ Len(SubSeq(ps, c, b)) = IF c <= b THEN b - c + 1 ELSE 0
          /\ \A k \in 1..b - c + 1 : SubSeq(ps, c, b)[k] = ps[c + k - 1]
      BY <2>2, <3>1, SubSeqProperties
    <3> QED BY <3>2 DEF c
  <2> HIDE DEF t
  <2>4. b - (a + 1) + 1 = b - a /\ \A k \in Int : (a + 1) + k - 1 = a + k
    OBVIOUS
  <2> QED BY <2>3, <2>4
<1> HIDE DEF t
<1>2. DOMAIN t = 1..b - a
  BY <1>1, PoolAddr
<1>3. \A k \in a + 1..b : k - a \in 1..b - a /\ t[k - a] = ps[k]
  <2>1. ASSUME NEW k \in a + 1..b PROVE k - a \in 1..b - a /\ t[k - a] = ps[k]
    <3> DEFINE x == k - a
    <3>1. x \in 1..b - a /\ a + x = k
      OBVIOUS
    <3> HIDE DEF x
    <3>2. t[x] = ps[k]
      BY <1>1, <3>1
    <3> QED BY <3>1, <3>2 DEF x
  <2> QED BY <2>1
<1>4. \A x \in 1..b - a : a + x \in a + 1..b
  OBVIOUS
<1>5. ToSet(t) = {ps[k] : k \in a + 1..b}
  <2>1. ToSet(t) = {t[x] : x \in 1..b - a}
    BY <1>2 DEF ToSet
  <2>2. ASSUME NEW p \in {t[x] : x \in 1..b - a} PROVE p \in {ps[k] : k \in a + 1..b}
    BY <1>1, <1>4
  <2>3. ASSUME NEW p \in {ps[k] : k \in a + 1..b} PROVE p \in {t[x] : x \in 1..b - a}
    BY <1>3
  <2> QED BY <2>1, <2>2, <2>3
<1>6. ASSUME \A k, l \in a + 1..b : Addr[ps[k]] = Addr[ps[l]] => k = l
      PROVE  Unique(t)
  <2>1. ASSUME NEW x \in 1..b - a, NEW y \in 1..b - a, Addr[t[x]] = Addr[t[y]]
        PROVE  x = y
    <3>1. t[x] = ps[a + x] /\ t[y] = ps[a + y] /\ a + x \in a + 1..b /\ a + y \in a + 1..b
      BY <1>1, <1>4
    <3>2. a + x = a + y
      BY <1>6, <2>1, <3>1
    <3> QED BY <3>2
  <2> QED BY <1>2, <2>1 DEF Unique
<1> QED BY <1>1, <1>5, <1>6 DEF t, PieceOf, Items, Apart

\* What reset returns: the doc of Reset as equations on sets.  Of two places of a
\* pool one is removed.
NewOf(S, D) == {p \in S : Addr[p] \notin Addrs(D)}
OldOf(S, D) == {p \in D : Addr[p] \in Addrs(S)}

MergedTo(r, S, D, X) ==
    /\ IsListOf(r.result, OldOf(S, D) \cup NewOf(S, D))
    /\ IsListOf(r.untouched, OldOf(S, D))
    /\ r.inserted = NewOf(S, D) /\ r.removed = NewOf(D, S) \cup X /\ r.ignored = {}

\* The merge from start to end is the doc of Reset, as equations of sets.
LEMMA MergeMeans ==
    ASSUME NEW dst, NEW src, NEW S, NEW D, NEW X, X \subseteq D,
           IsListOf(src, S), IsMixOf(dst, D, X)
    PROVE  MergedTo(Merge(dst, src), S, D, X)
<1> DEFINE M == Len(src)
           N == Len(src) + Len(dst)
           r == Merge(dst, src)
<1>1. M \in Nat /\ N \in Nat /\ M <= N
  BY PoolAddr DEF IsListOf, IsMixOf
<1>2. PICK m : /\ MergeOK(m, M, N, S, D, X) /\ m.i = 0 /\ m.j = M
               /\ r = [result    |-> SubSeq(m.ps, m.cr + 1, m.rm),
                       untouched |-> SubSeq(m.ps, m.mid + 1, m.rm),
                       inserted  |-> ToSet(SubSeq(m.ps, m.cr + 1, m.mid)),
                       removed   |-> ToSet(SubSeq(m.ps, m.rm + 1, Len(m.ps))),
                       ignored   |-> ToSet(SubSeq(m.ps, 1, m.dp))]
  BY MergeEnds
<1> DEFINE ps == m.ps
           cr == m.cr
           rm == m.rm
<1> HIDE DEF M, N
<1>3. /\ ps \in [1..N -> Pools] /\ cr \in 0..M /\ rm \in M..N /\ m.mid = M /\ m.dp = 0
      /\ m.i = 0 /\ m.j = M
  BY <1>1, <1>2, BoundsOf
<1>4. /\ Half(ps, 0, M, S, {}) /\ Half(ps, M, N, D, X)
      /\ Matched(ps, 0 + 1..cr, M, rm) /\ NoneIn(ps, cr, M, D)
      /\ AllIn(ps, M, rm, S) /\ Spare(ps, rm + 1..N, M, rm, S) /\ Apart(ps, M, rm)
  BY <1>2 DEF MergeOK, Progress, Parted
<1>5. Len(ps) = N
  BY <1>1, <1>3
<1>6. /\ r.result = SubSeq(ps, cr + 1, rm) /\ r.untouched = SubSeq(ps, M + 1, rm)
      /\ r.inserted = ToSet(SubSeq(ps, cr + 1, M))
      /\ r.removed = ToSet(SubSeq(ps, rm + 1, N))
      /\ r.ignored = ToSet(SubSeq(ps, 1, 0))
  <2>1. r = [result    |-> SubSeq(ps, cr + 1, rm),
             untouched |-> SubSeq(ps, M + 1, rm),
             inserted  |-> ToSet(SubSeq(ps, cr + 1, M)),
             removed   |-> ToSet(SubSeq(ps, rm + 1, N)),
             ignored   |-> ToSet(SubSeq(ps, 1, 0))]
    <3> HIDE DEF r
    <3>1. m.mid = M /\ m.dp = 0 /\ Len(m.ps) = N
      BY <1>3, <1>5
    <3> QED BY <1>2, <3>1
  <2> HIDE DEF r
  <2> QED BY <2>1
<1> HIDE DEF r, ps, cr, rm
<1>0. ASSUME NEW a \in 0..N, NEW b \in a..N
      PROVE  PieceOf(SubSeq(ps, a + 1, b), ps, a, b)
  BY <1>1, <1>3, PieceIs
<1>7. Items(ps, cr, M) = NewOf(S, D)
  <2>1. ASSUME NEW k \in cr + 1..M PROVE ps[k] \in NewOf(S, D)
    <3>1. k \in 0 + 1..M
      BY <1>3
    <3> QED BY <1>4, <3>1 DEF NewOf, Half, NoneIn
  <2>2. ASSUME NEW p \in NewOf(S, D) PROVE \E k \in cr + 1..M : ps[k] = p
    <3>1. PICK k \in 0 + 1..M : ps[k] = p
      BY <1>4 DEF NewOf, Half
    <3>2. ASSUME k \in 0 + 1..cr PROVE FALSE
      <4>1. PICK l \in M + 1..rm : Addr[ps[l]] = Addr[p]
        BY <1>4, <3>1, <3>2 DEF Matched
      <4>2. l \in M + 1..N
        BY <1>1, <1>3
      <4>3. ps[l] \in D
        BY <1>4, <4>2 DEF Half
      <4> QED BY <4>1, <4>3 DEF NewOf, Addrs
    <3> QED BY <1>1, <1>3, <3>1, <3>2
  <2> QED BY <2>1, <2>2 DEF Items
<1>8. Items(ps, M, rm) = OldOf(S, D)
  <2>1. ASSUME NEW k \in M + 1..rm PROVE ps[k] \in OldOf(S, D)
    <3>1. k \in M + 1..N
      BY <1>1, <1>3
    <3> QED BY <1>4, <3>1 DEF OldOf, Half, AllIn
  <2>2. ASSUME NEW p \in OldOf(S, D) PROVE \E k \in M + 1..rm : ps[k] = p
    <3>1. PICK k \in M + 1..N : ps[k] = p
      BY <1>4 DEF OldOf, Half
    <3>2. CASE k \in rm + 1..N
      <4>1. PICK l \in M + 1..rm : Addr[ps[l]] = Addr[p]
        BY <1>4, <3>1, <3>2 DEF OldOf, Spare
      <4>2. l \in M + 1..N
        BY <1>1, <1>3
      <4>3. ps[l] = p
        BY <1>4, <3>1, <4>1, <4>2 DEF Half
      <4> QED BY <4>3
    <3> QED BY <1>1, <1>3, <3>1, <3>2
  <2> QED BY <2>1, <2>2 DEF Items
<1>9. Items(ps, rm, N) = NewOf(D, S) \cup X
  <2>1. ASSUME NEW k \in rm + 1..N PROVE ps[k] \in NewOf(D, S) \cup X
    <3>1. k \in M + 1..N
      BY <1>1, <1>3
    <3>2. ps[k] \in D
      BY <1>4, <3>1 DEF Half
    <3>3. CASE Addr[ps[k]] \in Addrs(S)
      <4>1. PICK l \in M + 1..rm : Addr[ps[l]] = Addr[ps[k]]
        BY <1>4, <3>3 DEF Spare
      <4>2. l \in M + 1..N /\ l # k
        BY <1>1, <1>3
      <4> QED BY <1>4, <3>1, <4>1, <4>2 DEF Half
    <3> QED BY <3>2, <3>3 DEF NewOf
  <2>2. ASSUME NEW p \in NewOf(D, S) PROVE \E k \in rm + 1..N : ps[k] = p
    <3>1. PICK k \in M + 1..N : ps[k] = p
      BY <1>4 DEF NewOf, Half
    <3>2. k \notin M + 1..rm
      BY <1>4, <3>1 DEF NewOf, AllIn
    <3> QED BY <1>1, <1>3, <3>1, <3>2
  <2>3. ASSUME NEW p \in X PROVE \E k \in rm + 1..N : ps[k] = p
    <3>1. PICK k \in M + 1..N, l \in M + 1..N : k # l /\ ps[k] = p /\ ps[l] = p
      BY <1>4 DEF Half
    <3>2. ~(k \in M + 1..rm /\ l \in M + 1..rm)
      BY <1>4, <3>1 DEF Apart
    <3>3. k \in rm + 1..N \/ l \in rm + 1..N
      BY <1>1, <1>3, <3>2
    <3> QED BY <3>1, <3>3
  <2> QED BY <2>1, <2>2, <2>3 DEF Items
<1>10. r.inserted = NewOf(S, D)
  <2>1. cr \in 0..N /\ M \in cr..N
    BY <1>1, <1>3
  <2>2. PieceOf(SubSeq(ps, cr + 1, M), ps, cr, M)
    BY <1>0, <2>1
  <2> QED BY <1>6, <1>7, <2>2 DEF PieceOf
<1>11. r.removed = NewOf(D, S) \cup X
  <2>1. rm \in 0..N /\ N \in rm..N
    BY <1>1, <1>3
  <2>2. PieceOf(SubSeq(ps, rm + 1, N), ps, rm, N)
    BY <1>0, <2>1
  <2> QED BY <1>6, <1>9, <2>2 DEF PieceOf
<1>12. r.ignored = {}
  <2>1. SubSeq(ps, 1, 0) = <<>>
    BY <1>3, SubSeqEmpty
  <2> QED BY <1>6, <2>1 DEF ToSet
<1>13. IsListOf(r.untouched, OldOf(S, D))
  <2>1. M \in 0..N /\ rm \in M..N
    BY <1>1, <1>3
  <2>2. PieceOf(SubSeq(ps, M + 1, rm), ps, M, rm)
    BY <1>0, <2>1
  <2> QED BY <1>4, <1>6, <1>8, <2>2 DEF IsListOf, PieceOf
<1>14. IsListOf(r.result, OldOf(S, D) \cup NewOf(S, D))
  <2>1. ASSUME NEW k \in cr + 1..rm, NEW l \in cr + 1..rm, Addr[ps[k]] = Addr[ps[l]]
        PROVE  k = l
    <3>1. CASE k <= M /\ l <= M
      <4>1. k \in 0 + 1..M /\ l \in 0 + 1..M
        BY <1>1, <1>3, <3>1
      <4> QED BY <1>4, <2>1, <4>1 DEF Half
    <3>2. CASE ~(k <= M) /\ ~(l <= M)
      <4>1. k \in M + 1..rm /\ l \in M + 1..rm
        BY <1>1, <1>3, <3>2
      <4> QED BY <1>4, <2>1, <4>1 DEF Apart
    <3>3. \A x \in cr + 1..M, y \in M + 1..rm : Addr[ps[x]] # Addr[ps[y]]
      <4>1. \A x \in cr + 1..M : Addr[ps[x]] \notin Addrs(D)
        BY <1>4 DEF NoneIn
      <4>2. \A y \in M + 1..rm : ps[y] \in D
        <5>1. \A y \in M + 1..rm : y \in M + 1..N
          BY <1>1, <1>3
        <5> QED BY <1>4, <5>1 DEF Half
      <4> QED BY <4>1, <4>2 DEF Addrs
    <3>4. CASE k <= M /\ ~(l <= M)
      <4>1. k \in cr + 1..M /\ l \in M + 1..rm
        BY <1>1, <1>3, <3>4
      <4> QED BY <2>1, <3>3, <4>1
    <3>5. CASE ~(k <= M) /\ l <= M
      <4>1. l \in cr + 1..M /\ k \in M + 1..rm
        BY <1>1, <1>3, <3>5
      <4> QED BY <2>1, <3>3, <4>1
    <3> QED BY <3>1, <3>2, <3>4, <3>5
  <2>2. cr \in 0..N /\ rm \in cr..N
    BY <1>1, <1>3
  <2>3. Items(ps, cr, rm) = Items(ps, M, rm) \cup Items(ps, cr, M)
    <3>1. \A k \in cr + 1..rm : k \in M + 1..rm \/ k \in cr + 1..M
      BY <1>1, <1>3
    <3>2. \A k \in M + 1..rm : k \in cr + 1..rm
      BY <1>1, <1>3
    <3>3. \A k \in cr + 1..M : k \in cr + 1..rm
      BY <1>1, <1>3
    <3> QED BY <3>1, <3>2, <3>3 DEF Items
  <2>4. Items(ps, cr, rm) = OldOf(S, D) \cup NewOf(S, D)
    BY <1>7, <1>8, <2>3
  <2>5. PieceOf(SubSeq(ps, cr + 1, rm), ps, cr, rm)
    BY <1>0, <2>2
  <2>6. Apart(ps, cr, rm)
    BY <2>1 DEF Apart
  <2> QED BY <1>6, <2>4, <2>5, <2>6 DEF IsListOf, PieceOf
<1> QED BY <1>10, <1>11, <1>12, <1>13, <1>14 DEF r, MergedTo

-----------------------------------------------------------------------------
(* The lists that the operations store *)

\* A list of no pools.
LEMMA NoPeers == IsListOf(<<>>, {})
<1>1. <<>> \in Seq(Pools) /\ DOMAIN <<>> = {}
  OBVIOUS
<1> QED BY <1>1 DEF IsListOf, Unique, ToSet

\* Appending a pool at a new address.
LEMMA AppendIs ==
    ASSUME NEW s, NEW P, IsListOf(s, P), NEW p \in Pools, Addr[p] \notin Addrs(P)
    PROVE  IsListOf(Append(s, p), P \cup {p})
<1> DEFINE n == Len(s)
           t == Append(s, p)
<1>1. s \in Seq(Pools) /\ n \in Nat /\ DOMAIN s = 1..n
  BY PoolAddr DEF IsListOf
<1>2. /\ t \in Seq(Pools) /\ Len(t) = n + 1 /\ t[n + 1] = p
      /\ \A k \in 1..n : t[k] = s[k]
  BY <1>1, AppendProperties
<1> HIDE DEF t
<1>3. DOMAIN t = 1..n + 1
  BY <1>2, PoolAddr
<1> HIDE DEF n
<1>4. P = {s[k] : k \in 1..n}
  BY <1>1 DEF IsListOf, ToSet
<1>5. ToSet(t) = P \cup {p}
  <2>1. ToSet(t) = {t[k] : k \in 1..n + 1}
    BY <1>3 DEF ToSet
  <2>2. \A k \in 1..n : k \in 1..n + 1
    BY <1>1
  <2>3. \A k \in 1..n + 1 : k \in 1..n \/ k = n + 1
    BY <1>1
  <2>4. n + 1 \in 1..n + 1
    BY <1>1
  <2>5. ASSUME NEW q \in P \cup {p} PROVE q \in {t[k] : k \in 1..n + 1}
    BY <1>2, <1>4, <2>2, <2>4
  <2>6. ASSUME NEW k \in 1..n + 1 PROVE t[k] \in P \cup {p}
    BY <1>2, <1>4, <2>3
  <2> QED BY <2>1, <2>5, <2>6
<1>6. \A k \in 1..n : Addr[s[k]] # Addr[p]
  BY <1>4 DEF Addrs
<1>7. Unique(t)
  <2>1. ASSUME NEW k \in 1..n + 1, NEW l \in 1..n + 1, Addr[t[k]] = Addr[t[l]]
        PROVE  k = l
    <3>1. CASE k \in 1..n /\ l \in 1..n
      BY <1>1, <1>2, <2>1, <3>1 DEF IsListOf, Unique
    <3>2. CASE k = n + 1 /\ l \in 1..n
      BY <1>2, <1>6, <2>1, <3>2
    <3>3. CASE k \in 1..n /\ l = n + 1
      BY <1>2, <1>6, <2>1, <3>3
    <3>4. CASE k = n + 1 /\ l = n + 1
      BY <3>4
    <3>5. (k \in 1..n \/ k = n + 1) /\ (l \in 1..n \/ l = n + 1)
      BY <1>1
    <3> QED BY <3>1, <3>2, <3>3, <3>4, <3>5
  <2> QED BY <1>3, <2>1 DEF Unique
<1> QED BY <1>2, <1>5, <1>7 DEF IsListOf, t

\* Two lists with no address in common.
LEMMA ConcatIs ==
    ASSUME NEW s, NEW P, IsListOf(s, P), NEW t, NEW Q, IsListOf(t, Q),
           Addrs(P) \cap Addrs(Q) = {}
    PROVE  IsListOf(s \o t, P \cup Q)
<1> DEFINE n == Len(s)
           m == Len(t)
           u == s \o t
<1>1. /\ s \in Seq(Pools) /\ n \in Nat /\ DOMAIN s = 1..n
      /\ t \in Seq(Pools) /\ m \in Nat /\ DOMAIN t = 1..m
  BY PoolAddr DEF IsListOf
<1>2. /\ u \in Seq(Pools) /\ Len(u) = n + m
      /\ \A k \in 1..n + m : u[k] = IF k <= n THEN s[k] ELSE t[k - n]
  BY <1>1, ConcatProperties
<1> HIDE DEF u
<1>3. DOMAIN u = 1..n + m
  BY <1>2, PoolAddr
<1> HIDE DEF n, m
<1>4. P = {s[k] : k \in 1..n} /\ Q = {t[k] : k \in 1..m}
  BY <1>1 DEF IsListOf, ToSet
<1>5. ASSUME NEW k \in 1..n PROVE k \in 1..n + m /\ u[k] = s[k]
  BY <1>1, <1>2
<1>6. ASSUME NEW k \in 1..n + m, ~(k <= n)
      PROVE  k - n \in 1..m /\ u[k] = t[k - n]
  BY <1>1, <1>2, <1>6
<1>7. ASSUME NEW k \in 1..m PROVE \E l \in 1..n + m : u[l] = t[k]
  <2> DEFINE l == n + k
  <2>1. l \in 1..n + m /\ ~(l <= n) /\ l - n = k
    BY <1>1
  <2> HIDE DEF l
  <2>2. u[l] = t[k]
    BY <1>6, <2>1
  <2> QED BY <2>1, <2>2
<1>8. \A k \in 1..n + m : (k <= n => k \in 1..n)
  BY <1>1
<1>9. ToSet(u) = P \cup Q
  <2>1. ToSet(u) = {u[k] : k \in 1..n + m}
    BY <1>3 DEF ToSet
  <2>2. ASSUME NEW q \in P \cup Q PROVE q \in {u[k] : k \in 1..n + m}
    BY <1>4, <1>5, <1>7
  <2>3. ASSUME NEW k \in 1..n + m PROVE u[k] \in P \cup Q
    BY <1>4, <1>5, <1>6, <1>8
  <2> QED BY <2>1, <2>2, <2>3
<1>10. \A k \in 1..n, l \in 1..m : Addr[s[k]] # Addr[t[l]]
  BY <1>4 DEF Addrs
<1>11. Unique(u)
  <2>1. ASSUME NEW k \in 1..n + m, NEW l \in 1..n + m, Addr[u[k]] = Addr[u[l]]
        PROVE  k = l
    <3>1. CASE k <= n /\ l <= n
      <4>1. k \in 1..n /\ l \in 1..n /\ u[k] = s[k] /\ u[l] = s[l]
        BY <1>5, <1>8, <3>1
      <4> QED BY <1>1, <2>1, <4>1 DEF IsListOf, Unique
    <3>2. CASE ~(k <= n) /\ ~(l <= n)
      <4>1. k - n \in 1..m /\ l - n \in 1..m /\ u[k] = t[k - n] /\ u[l] = t[l - n]
        BY <1>6, <3>2
      <4>2. k - n = l - n
        BY <1>1, <2>1, <4>1 DEF IsListOf, Unique
      <4> QED BY <1>1, <4>2
    <3>3. CASE k <= n /\ ~(l <= n)
      BY <1>5, <1>6, <1>8, <1>10, <2>1, <3>3
    <3>4. CASE ~(k <= n) /\ l <= n
      BY <1>5, <1>6, <1>8, <1>10, <2>1, <3>4
    <3> QED BY <3>1, <3>2, <3>3, <3>4
  <2> QED BY <1>3, <2>1 DEF Unique
<1> QED BY <1>2, <1>9, <1>11 DEF IsListOf, u

\* Two lists whose pools have different addresses: those of both have two places.
LEMMA MixIs ==
    ASSUME NEW s, NEW P, IsListOf(s, P), NEW t, NEW Q, IsListOf(t, Q),
           Distinct(P \cup Q)
    PROVE  IsMixOf(s \o t, P \cup Q, P \cap Q)
<1> DEFINE n == Len(s)
           m == Len(t)
           u == s \o t
<1>1. /\ s \in Seq(Pools) /\ n \in Nat /\ DOMAIN s = 1..n
      /\ t \in Seq(Pools) /\ m \in Nat /\ DOMAIN t = 1..m
  BY PoolAddr DEF IsListOf
<1>2. /\ u \in Seq(Pools) /\ Len(u) = n + m
      /\ \A k \in 1..n + m : u[k] = IF k <= n THEN s[k] ELSE t[k - n]
  BY <1>1, ConcatProperties
<1> HIDE DEF u, n, m
<1>3. /\ P = {s[k] : k \in 1..n} /\ \A k, l \in 1..n : s[k] = s[l] => k = l
      /\ Q = {t[k] : k \in 1..m} /\ \A k, l \in 1..m : t[k] = t[l] => k = l
  BY <1>1 DEF IsListOf, ToSet, Unique
<1>4. ASSUME NEW k \in 1..n + m
      PROVE  \/ k <= n /\ k \in 1..n /\ u[k] = s[k]
             \/ ~(k <= n) /\ k - n \in 1..m /\ u[k] = t[k - n]
  BY <1>1, <1>2
<1>5. ASSUME NEW k \in 1..n PROVE k \in 1..n + m /\ u[k] = s[k]
  BY <1>1, <1>2
<1>6. ASSUME NEW k \in 1..m PROVE \E l \in 1..n + m : u[l] = t[k] /\ l > n
  <2> DEFINE l == n + k
  <2>1. l \in 1..n + m /\ ~(l <= n) /\ l > n /\ l - n = k
    BY <1>1
  <2> HIDE DEF l
  <2>2. u[l] = t[k]
    BY <1>2, <2>1
  <2> QED BY <2>1, <2>2
<1>7. \A k \in 1..n + m : u[k] \in P \cup Q
  BY <1>3, <1>4
<1>8. \A p \in P \cup Q : \E k \in 1..n + m : u[k] = p
  BY <1>3, <1>5, <1>6
<1>9. ASSUME NEW p \in P \cap Q
      PROVE  \E k, l \in 1..n + m : k # l /\ u[k] = p /\ u[l] = p
  <2>1. PICK x \in 1..n, y \in 1..m : s[x] = p /\ t[y] = p
    BY <1>3
  <2>2. PICK l \in 1..n + m : u[l] = p /\ l > n
    BY <1>6, <2>1
  <2>3. x \in 1..n + m /\ u[x] = p /\ x # l
    BY <1>1, <1>5, <2>1, <2>2
  <2> QED BY <2>2, <2>3
<1>10. ASSUME NEW k \in 1..n + m, NEW l \in 1..n + m, Addr[u[k]] = Addr[u[l]]
       PROVE  k = l \/ (u[k] = u[l] /\ u[k] \in P \cap Q)
  <2>1. u[k] = u[l]
    BY <1>7, <1>10 DEF Distinct
  <2>2. CASE k <= n /\ l <= n
    BY <1>3, <1>4, <2>1, <2>2
  <2>3. CASE ~(k <= n) /\ ~(l <= n)
    <3>1. k - n = l - n
      BY <1>3, <1>4, <2>1, <2>3
    <3> QED BY <1>1, <3>1
  <2>4. CASE k <= n /\ ~(l <= n)
    BY <1>3, <1>4, <2>1, <2>4
  <2>5. CASE ~(k <= n) /\ l <= n
    BY <1>3, <1>4, <2>1, <2>5
  <2> QED BY <2>2, <2>3, <2>4, <2>5
<1>11. Half(u, 0, n + m, P \cup Q, P \cap Q)
  <2>1. 0 + 1..n + m = 1..n + m
    OBVIOUS
  <2> QED BY <1>7, <1>8, <1>9, <1>10, <2>1 DEF Half
<1> QED BY <1>2, <1>11 DEF IsMixOf, u

\* Removing the pool at an index removes the address.
LEMMA RemoveAtIs ==
    ASSUME NEW s, NEW P, IsListOf(s, P), NEW x \in DOMAIN s
    PROVE  IsListOf(RemoveAt(s, x), {q \in P : Addr[q] # Addr[s[x]]})
<1> DEFINE n == Len(s)
           a == SubSeq(s, 0 + 1, x - 1)
           b == SubSeq(s, x + 1, n)
           A == Items(s, 0, x - 1)
           B == Items(s, x, n)
<1>1. s \in Seq(Pools) /\ n \in Nat /\ DOMAIN s = 1..n /\ s \in [1..n -> Pools]
  <2>1. s \in Seq(Pools)
    BY DEF IsListOf
  <2> QED BY <2>1, PoolAddr
<1>2. P = {s[k] : k \in 1..n} /\ \A k, l \in 1..n : Addr[s[k]] = Addr[s[l]] => k = l
  BY <1>1 DEF IsListOf, ToSet, Unique
<1>3. RemoveAt(s, x) = a \o b
  BY DEF RemoveAt
<1> HIDE DEF n
<1>4. PieceOf(a, s, 0, x - 1) /\ PieceOf(b, s, x, n)
  <2> DEFINE z == 0
             y == x - 1
  <2>1. z \in 0..n /\ y \in z..n /\ x \in 0..n /\ n \in x..n
    BY <1>1
  <2> HIDE DEF z, y
  <2>2. PieceOf(SubSeq(s, z + 1, y), s, z, y)
    BY <1>1, <2>1, PieceIs
  <2>3. PieceOf(b, s, x, n)
    BY <1>1, <2>1, PieceIs
  <2> QED BY <2>2, <2>3 DEF z, y
<1> HIDE DEF a, b
<1>5. IsListOf(a, A) /\ IsListOf(b, B)
  <2>1. Apart(s, 0, x - 1) /\ Apart(s, x, n)
    <3>1. (\A k \in 0 + 1..x - 1 : k \in 1..n) /\ (\A k \in x + 1..n : k \in 1..n)
      BY <1>1
    <3> QED BY <1>2, <3>1 DEF Apart
  <2> QED BY <1>4, <2>1 DEF PieceOf, IsListOf
<1>6. Addrs(A) \cap Addrs(B) = {}
  <2>1. ASSUME NEW k \in 0 + 1..x - 1, NEW l \in x + 1..n PROVE Addr[s[k]] # Addr[s[l]]
    <3>1. k \in 1..n /\ l \in 1..n /\ k # l
      BY <1>1
    <3> QED BY <1>2, <3>1
  <2> QED BY <2>1 DEF Addrs, Items
<1>7. A \cup B = {q \in P : Addr[q] # Addr[s[x]]}
  <2>1. ASSUME NEW q \in A \cup B PROVE q \in P /\ Addr[q] # Addr[s[x]]
    <3>1. PICK k \in 1..n : s[k] = q /\ k # x
      <4>1. (\A k \in 0 + 1..x - 1 : k \in 1..n /\ k # x) /\ (\A k \in x + 1..n : k \in 1..n /\ k # x)
        BY <1>1
      <4> QED BY <4>1 DEF Items
    <3> QED BY <1>1, <1>2, <3>1
  <2>2. ASSUME NEW q \in P, Addr[q] # Addr[s[x]] PROVE q \in A \cup B
    <3>1. PICK k \in 1..n : s[k] = q
      BY <1>2
    <3>2. k # x
      BY <2>2, <3>1
    <3>3. k \in 0 + 1..x - 1 \/ k \in x + 1..n
      BY <1>1, <3>2
    <3> QED BY <3>1, <3>3 DEF Items
  <2> QED BY <2>1, <2>2
<1> HIDE DEF A, B
<1>8. IsListOf(a \o b, A \cup B)
  BY <1>5, <1>6, ConcatIs
<1> QED BY <1>3, <1>7, <1>8

-----------------------------------------------------------------------------
(* The inductive invariant *)

\* No slice that Reset is given repeats an address: cluster_repeats shows what
\* happens otherwise.
GivenAssumption == \A s \in Given : Unique(s)

\* The list has no address twice; a pool may be listed and disabled, but two pools
\* never share an address.  What Reset removed last is not disabled.
ClusterInv ==
    /\ IsListOf(peers, ToSet(peers))
    /\ Distinct(ToSet(peers) \cup disabled) /\ IsFiniteSet(disabled)
    /\ answer.removed \cap disabled = {}

\* What Reset removes, of E listed and X disabled pools: those that S does not name,
\* and one of the two places of a pool that is in both.
GoneOf(S, E, X) == NewOf(E \cup X, S) \cup (E \cap X)

\* What Reset does: as sets.
ResetTo(S, E, disable) ==
    LET D == E \cup disabled IN
    /\ IsListOf(peers', OldOf(S, D) \cup (IF disable THEN {} ELSE NewOf(S, D)))
    /\ disabled' = (disabled \ GoneOf(S, E, disabled))
                     \cup (IF disable THEN NewOf(S, D) ELSE {})
    /\ answer' = Answer(TRUE, NewOf(S, D), GoneOf(S, E, disabled), {})
    /\ UNCHANGED <<terminated, stopping>>

\* The slices of Reset and what it makes of the list and the disabled peers.
LEMMA ResetMeans ==
    ASSUME GivenAssumption, ClusterInv, NEW ps \in Given, NEW disable \in BOOLEAN,
           Reset(ps, disable)
    PROVE  IsListOf(ps, ToSet(ps)) /\ ResetTo(ToSet(ps), ToSet(peers), disable)
<1> DEFINE d == SetToSeq(disabled)
           dst == peers \o d
           S == ToSet(ps)
           E == ToSet(peers)
           D == E \cup disabled
           m == Merge(dst, ps)
           new == IF disable THEN m.inserted ELSE {}
           left == {q \in disabled : Addr[q] \notin Addrs(m.removed \cup new)}
           gone == GoneOf(S, E, disabled)
<1>1. IsListOf(ps, S)
  BY DEF GivenAssumption, ClusterAssumption, IsListOf
<1>2. Distinct(D)
  BY DEF ClusterInv
<1>3. IsListOf(d, disabled)
  <2>1. d \in Seq(disabled) /\ ToSet(d) = disabled /\ IsInjective(d)
    BY ListOf DEF ClusterInv
  <2>2. d \in Seq(Pools)
    BY <1>2, <2>1 DEF Distinct
  <2>3. \A k \in DOMAIN d : d[k] \in disabled
    BY <2>1, ElementOfSeq, LenProperties
  <2>4. \A k, l \in DOMAIN d : Addr[d[k]] = Addr[d[l]] => k = l
    BY <1>2, <2>1, <2>3 DEF Distinct, IsInjective
  <2> QED BY <2>1, <2>2, <2>4 DEF IsListOf, Unique
<1> HIDE DEF d
<1>4. IsMixOf(dst, D, E \cap disabled)
  BY <1>2, <1>3, MixIs DEF ClusterInv
<1>5. /\ peers' = IF disable THEN m.untouched ELSE m.result
      /\ disabled' = left \cup new
      /\ answer' = Answer(TRUE, m.inserted, m.removed, m.ignored)
      /\ UNCHANGED <<terminated, stopping>>
  BY Zenon DEF Reset, d
<1> HIDE DEF dst
<1>6. /\ IsListOf(m.result, OldOf(S, D) \cup NewOf(S, D))
      /\ IsListOf(m.untouched, OldOf(S, D))
      /\ m.inserted = NewOf(S, D) /\ m.removed = gone /\ m.ignored = {}
  <2>1. E \cap disabled \subseteq D
    OBVIOUS
  <2> HIDE DEF S, D, E
  <2>2. MergedTo(m, S, D, E \cap disabled)
    BY <1>1, <1>4, <2>1, MergeMeans, Zenon
  <2> HIDE DEF m
  <2> QED BY <2>2 DEF MergedTo, GoneOf, D
<1> HIDE DEF m
<1>7. gone \subseteq D
  BY DEF GoneOf, NewOf
<1>8. \A q \in NewOf(S, D) : Addr[q] \notin Addrs(D)
  BY DEF NewOf
<1> HIDE DEF gone, D
<1>9. left = disabled \ gone
  <2>1. ASSUME NEW q \in disabled, q \in gone PROVE q \notin left
    BY <1>6, <2>1 DEF Addrs
  <2>2. ASSUME NEW q \in disabled, q \notin gone PROVE q \in left
    <3>1. q \in D
      BY DEF D
    <3>2. \A r \in gone : Addr[r] # Addr[q]
      BY <1>2, <1>7, <2>2, <3>1 DEF Distinct
    <3>3. \A r \in NewOf(S, D) : Addr[r] # Addr[q]
      BY <1>8, <3>1 DEF Addrs
    <3> QED BY <1>6, <3>2, <3>3 DEF Addrs
  <2> QED BY <2>1, <2>2
<1> HIDE DEF left
<1>10. IsListOf(peers', OldOf(S, D) \cup (IF disable THEN {} ELSE NewOf(S, D)))
  <2>1. CASE disable
    <3>1. OldOf(S, D) \cup {} = OldOf(S, D)
      OBVIOUS
    <3> QED BY <1>5, <1>6, <2>1, <3>1
  <2>2. CASE ~disable
    BY <1>5, <1>6, <2>2
  <2> QED BY <2>1, <2>2
<1>11. disabled' = (disabled \ gone) \cup (IF disable THEN NewOf(S, D) ELSE {})
  BY <1>5, <1>6, <1>9
<1>12. answer' = Answer(TRUE, NewOf(S, D), gone, {})
  BY <1>5, <1>6
<1>13. ResetTo(S, E, disable)
  BY <1>5, <1>10, <1>11, <1>12 DEF ResetTo, gone, D
<1> QED BY <1>1, <1>13 DEF S, E

\* The other operations on the list.
LEMMA RemovePeerMeans ==
    ASSUME ClusterInv, NEW p \in Pools, RemovePeer(p)
    PROVE  IsListOf(peers', {q \in ToSet(peers) : Addr[q] # Addr[p]})
<1>1. PICK x \in DOMAIN peers : Addr[peers[x]] = Addr[p] /\ peers' = RemoveAt(peers, x)
  BY DEF RemovePeer
<1>2. IsListOf(RemoveAt(peers, x), {q \in ToSet(peers) : Addr[q] # Addr[peers[x]]})
  BY RemoveAtIs DEF ClusterInv
<1> QED BY <1>1, <1>2

\* Inserting a peer that is not listed appends it.
LEMMA InsertPeerMeans ==
    ASSUME ClusterInv, NEW p \in Pools, ~Listed(p), InsertPeer(p)
    PROVE  IsListOf(peers', ToSet(peers) \cup {p})
<1>1. Addr[p] \notin Addrs(ToSet(peers))
  BY DEF Listed, At, Addrs
<1>2. IsListOf(Append(peers, p), ToSet(peers) \cup {p})
  BY <1>1, AppendIs DEF ClusterInv
<1> QED BY <1>2 DEF InsertPeer

\* The invariant from what a step makes of the two sets.
LEMMA ClusterMade ==
    ASSUME NEW E, NEW X, IsListOf(peers', E), disabled' = X,
           Distinct(E \cup X), IsFiniteSet(X), answer'.removed \cap X = {}
    PROVE  ClusterInv'
<1>1. E = ToSet(peers')
  BY DEF IsListOf
<1> QED BY <1>1 DEF ClusterInv, IsListOf, Distinct, Unique

\* The pools of a list are finitely many, at different addresses.
LEMMA ListDistinct ==
    ASSUME NEW s, NEW P, IsListOf(s, P)
    PROVE  Distinct(P) /\ IsFiniteSet(P)
<1> DEFINE n == Len(s)
<1>1. s \in Seq(Pools) /\ n \in Nat /\ DOMAIN s = 1..n /\ \A k \in 1..n : s[k] \in Pools
  BY PoolAddr DEF IsListOf
<1>2. P = {s[k] : k \in 1..n} /\ \A k, l \in 1..n : Addr[s[k]] = Addr[s[l]] => k = l
  BY <1>1 DEF IsListOf, ToSet, Unique
<1> HIDE DEF n
<1>3. Distinct(P)
  BY <1>1, <1>2 DEF Distinct
<1>4. IsFiniteSet(P)
  <2> DEFINE f == [k \in 1..n |-> s[k]]
             I == 1..n
  <2>1. f \in Surjection(I, P) /\ IsFiniteSet(I)
    BY <1>1, <1>2, FS_Interval DEF Surjection
  <2> HIDE DEF f, I
  <2> QED BY <2>1, FS_Surjection
<1> QED BY <1>3, <1>4

-----------------------------------------------------------------------------
(* Each operation keeps the invariant, does not leave what Reset removed, and *)
(* is a step of PeerRegistry                                                  *)

StepOK == ClusterInv' /\ Registry!RegistryNext

\* The step that RemovedIsGone allows.
RemovedOK ==
    /\ answer'.removed \cap disabled' = {}
    /\ answer'.removed \cap ToSet(peers') \subseteq ToSet(peers) \cap disabled

\* Reset keeps the invariant and is a step of the registry.
LEMMA ResetStep ==
    ASSUME GivenAssumption, ClusterInv, NEW ps \in Given, NEW disable \in BOOLEAN,
           Reset(ps, disable)
    PROVE  StepOK /\ RemovedOK
<1> DEFINE S == ToSet(ps)
           E == ToSet(peers)
           D == E \cup disabled
           new == NewOf(S, D)
           old == OldOf(S, D)
           gone == GoneOf(S, E, disabled)
           E2 == old \cup (IF disable THEN {} ELSE new)
           X2 == (disabled \ gone) \cup (IF disable THEN new ELSE {})
<1>1. IsListOf(ps, S) /\ ResetTo(S, E, disable)
  BY ResetMeans
<1>2. /\ IsListOf(peers', E2) /\ ToSet(peers') = E2 /\ disabled' = X2
      /\ answer' = Answer(TRUE, new, gone, {}) /\ answer'.removed = gone
      /\ terminated' = terminated
  BY <1>1 DEF ResetTo, IsListOf, Answer
<1>3. Distinct(S) /\ IsFiniteSet(S) /\ Distinct(D) /\ IsFiniteSet(disabled)
  BY <1>1, ListDistinct DEF ClusterInv
<1>4. ~terminated
  BY DEF Reset
<1>5. /\ new \subseteq S /\ Addrs(new) = Addrs(S) \ Addrs(D) /\ old \subseteq D
      /\ \A p \in new, q \in D : Addr[p] # Addr[q]
  BY DEF NewOf, OldOf, Addrs
<1>6. gone = (D \ old) \cup (E \cap disabled) /\ old = {p \in D : Addr[p] \in Addrs(S)}
  BY DEF GoneOf, NewOf, OldOf
<1> HIDE DEF S, E, new, old, gone
<1>7. gone \subseteq D /\ new \cap D = {}
  BY <1>5, <1>6 DEF D
<1>8. Distinct(E2 \cup X2) /\ IsFiniteSet(X2)
  <2>1. E2 \cup X2 \subseteq D \cup new
    BY <1>5
  <2>2. Distinct(D \cup new)
    <3>1. Distinct(new)
      BY <1>3, <1>5 DEF Distinct
    <3> HIDE DEF D
    <3> QED BY <1>3, <1>5, <3>1 DEF Distinct
  <2>3. Distinct(E2 \cup X2)
    <3> HIDE DEF E2, X2, D
    <3> QED BY <2>1, <2>2 DEF Distinct
  <2>4. IsFiniteSet(new) /\ IsFiniteSet({})
    BY <1>3, <1>5, FS_Subset, FS_EmptySet
  <2>5. IsFiniteSet(disabled \ gone)
    <3>1. disabled \ gone \in SUBSET disabled
      OBVIOUS
    <3> QED BY <1>3, <3>1, FS_Subset
  <2>6. IsFiniteSet(X2)
    BY <2>4, <2>5, FS_Union
  <2> QED BY <2>3, <2>6
<1>9. gone \cap X2 = {}
  BY <1>7
<1>10. gone \cap E2 \subseteq E \cap disabled
  BY <1>6, <1>7
<1>11. ClusterInv'
  <2> HIDE DEF E2, X2
  <2> QED BY <1>2, <1>8, <1>9, ClusterMade
<1>12. RemovedOK
  <2> HIDE DEF E2, X2
  <2> QED BY <1>2, <1>9, <1>10 DEF RemovedOK, E
<1>13. {p \in S \ new : Addr[p] \in Addrs(new)} = {}
  <2>1. ASSUME NEW p \in S, Addr[p] \in Addrs(new) PROVE p \in new
    <3>1. PICK q \in new : Addr[q] = Addr[p]
      BY <2>1 DEF Addrs
    <3> QED BY <1>3, <1>5, <3>1 DEF Distinct
  <2> QED BY <2>1
<1>14. Registry!RegistryReset(S, disable)
  <2>1. Registry!Known = D /\ \A P : Registry!Addrs(P) = Addrs(P)
    BY DEF Registry!Known, Registry!Addrs, Addrs, E
  <2>2. \A p, q \in new : Addr[p] = Addr[q] => p = q
    BY <1>3, <1>5 DEF Distinct
  <2>3. old = {p \in Registry!Known : Addr[p] \in Registry!Addrs(S)}
    BY <1>6, <2>1
  <2>4. gone = (Registry!Known \ old) \cup (E \cap disabled)
    BY <1>6, <2>1
  <2>5. /\ new \in SUBSET S
        /\ Registry!Addrs(new) = Registry!Addrs(S) \ Registry!Addrs(Registry!Known)
        /\ {p \in S \ new : Addr[p] \in Registry!Addrs(new)} = {}
    BY <1>5, <1>13, <2>1
  <2>6. answer' = Registry!Answer(TRUE, new, gone, {})
    BY <1>2 DEF Answer, Registry!Answer
  <2> HIDE DEF D
  <2> QED BY <1>2, <1>4, <2>2, <2>3, <2>4, <2>5, <2>6, Zenon DEF Registry!RegistryReset, E
<1>15. Registry!RegistryNext
  <2>1. S = Registry!ToSet(ps)
    BY DEF S, ToSet, Registry!ToSet
  <2>2. Registry!RegistryReset(Registry!ToSet(ps), disable)
    BY <1>14, <2>1
  <2> QED BY <2>2, Zenon DEF Registry!RegistryNext
<1> QED BY <1>11, <1>12, <1>15 DEF StepOK

\* So is an operation that is refused.
LEMMA RefusedStep ==
    ASSUME ClusterInv, Refused, terminated' = terminated
    PROVE  StepOK /\ answer'.removed = {}
<1>1. peers' = peers /\ disabled' = disabled
  BY DEF Refused
<1>2. answer'.removed = {}
  BY DEF Refused, Answer
<1>3. ClusterInv'
  BY <1>1, <1>2 DEF ClusterInv, IsListOf, Distinct, Unique
<1>4. Registry!RegistryRefuse
  BY <1>1 DEF Refused, Answer, Registry!RegistryRefuse, Registry!Answer
<1> QED BY <1>2, <1>3, <1>4 DEF StepOK, Registry!RegistryNext

\* What the operations on one pool read of the sets.
LEMMA Reads ==
    ASSUME NEW p \in Pools
    PROVE  /\ Listed(p) <=> Addr[p] \in Registry!Addrs(ToSet(peers))
           /\ At(disabled, p) # {} <=> Addr[p] \in Registry!Addrs(disabled)
           /\ Registry!Addrs(Registry!Known) =
                Registry!Addrs(ToSet(peers)) \cup Registry!Addrs(disabled)
           /\ disabled \ At(disabled, p) = Registry!Others(disabled, p)
           /\ Registry!Others(ToSet(peers), p) = {q \in ToSet(peers) : Addr[q] # Addr[p]}
<1>1. Listed(p) <=> Addr[p] \in Registry!Addrs(ToSet(peers))
  BY DEF Listed, At, Registry!Addrs
<1>2. At(disabled, p) # {} <=> Addr[p] \in Registry!Addrs(disabled)
  BY DEF At, Registry!Addrs
<1>3. Registry!Addrs(Registry!Known) =
        Registry!Addrs(ToSet(peers)) \cup Registry!Addrs(disabled)
  BY DEF Registry!Addrs, Registry!Known
<1>4. disabled \ At(disabled, p) = Registry!Others(disabled, p)
  BY DEF At, Registry!Others
<1>5. Registry!Others(ToSet(peers), p) = {q \in ToSet(peers) : Addr[q] # Addr[p]}
  BY DEF Registry!Others
<1> QED BY <1>1, <1>2, <1>3, <1>4, <1>5

\* The invariant after an operation on p: other pools stay, and p may be stored when
\* no other pool of its address does.
LEMMA PoolMade ==
    ASSUME ClusterInv, NEW p \in Pools, NEW E, NEW X,
           IsListOf(peers', E), disabled' = X, answer'.removed = {},
           E \subseteq ToSet(peers) \cup {p}, X \subseteq disabled \cup {p},
           p \in E \cup X => \A q \in E \cup X : Addr[q] = Addr[p] => q = p
    PROVE  ClusterInv'
<1>1. Distinct(E \cup X)
  <2>1. E \cup X \subseteq (ToSet(peers) \cup disabled) \cup {p}
    OBVIOUS
  <2>2. Distinct(ToSet(peers) \cup disabled)
    BY DEF ClusterInv
  <2> QED BY <2>1, <2>2 DEF Distinct
<1>2. IsFiniteSet(X)
  <2>1. IsFiniteSet(disabled \cup {p})
    BY FS_AddElement DEF ClusterInv
  <2> QED BY <2>1, FS_Subset
<1> QED BY <1>1, <1>2, ClusterMade

\* Insert keeps the invariant and is a step of the registry.
LEMMA InsertStep ==
    ASSUME ClusterInv, NEW p \in Pools, Insert(p)
    PROVE  StepOK /\ answer'.removed = {}
<1> DEFINE E == ToSet(peers)
<1>1. CASE terminated \/ At(disabled, p) # {} \/ Listed(p)
  <2>1. Refused /\ terminated' = terminated
    BY <1>1 DEF Insert
  <2> QED BY <2>1, RefusedStep
<1>2. CASE ~(terminated \/ At(disabled, p) # {} \/ Listed(p))
  <2>1. InsertPeer(p) /\ Accepted /\ disabled' = disabled /\ terminated' = terminated
    BY <1>2 DEF Insert
  <2>2. IsListOf(peers', E \cup {p}) /\ ToSet(peers') = E \cup {p}
    BY <1>2, <2>1, InsertPeerMeans DEF IsListOf
  <2>3. answer'.removed = {}
    BY <2>1 DEF Accepted, Answer
  <2>4. \A q \in E \cup disabled : Addr[q] # Addr[p]
    BY <1>2 DEF Listed, At
  <2>5. ClusterInv'
    BY <2>1, <2>2, <2>3, <2>4, PoolMade
  <2>6. Registry!RegistryInsert(p)
    <3>1. Addr[p] \notin Registry!Addrs(Registry!Known)
      BY <1>2, Reads
    <3>2. answer' = Registry!Answer(TRUE, {}, {}, {})
      BY <2>1 DEF Accepted, Answer, Registry!Answer
    <3> QED BY <1>2, <2>1, <2>2, <3>1, <3>2 DEF Registry!RegistryInsert
  <2> QED BY <2>3, <2>5, <2>6 DEF StepOK, Registry!RegistryNext
<1> QED BY <1>1, <1>2

\* So is RemovePool, from the list or the disabled peers.
LEMMA RemovePoolStep ==
    ASSUME ClusterInv, NEW p \in Pools, RemovePool(p)
    PROVE  StepOK /\ answer'.removed = {}
<1> DEFINE E == ToSet(peers)
           off == At(disabled, p) # {}
           E2 == IF off THEN E ELSE Registry!Others(E, p)
           X2 == IF off THEN Registry!Others(disabled, p) ELSE disabled
<1>1. CASE terminated \/ (At(disabled, p) = {} /\ ~Listed(p))
  <2>1. Refused /\ terminated' = terminated
    BY <1>1 DEF RemovePool
  <2> QED BY <2>1, RefusedStep
<1>2. CASE ~(terminated \/ (At(disabled, p) = {} /\ ~Listed(p)))
  <2>1. /\ IF At(disabled, p) # {}
           THEN disabled' = disabled \ At(disabled, p) /\ peers' = peers
           ELSE RemovePeer(p) /\ disabled' = disabled
        /\ Accepted /\ terminated' = terminated
    BY <1>2 DEF RemovePool
  <2>2. IsListOf(peers', E2) /\ ToSet(peers') = E2 /\ disabled' = X2
    <3>1. CASE off
      BY <2>1, <3>1, Reads DEF ClusterInv
    <3>2. CASE ~off
      <4>1. IsListOf(peers', Registry!Others(E, p))
        BY <2>1, <3>2, RemovePeerMeans, Reads
      <4> QED BY <2>1, <3>2, <4>1 DEF IsListOf
    <3> QED BY <3>1, <3>2
  <2>3. answer'.removed = {}
    BY <2>1 DEF Accepted, Answer
  <2>4. E2 \subseteq E /\ X2 \subseteq disabled
    BY DEF Registry!Others
  <2>5. \A q \in E \cup disabled : p \in E \cup disabled /\ Addr[q] = Addr[p] => q = p
    BY DEF ClusterInv, Distinct
  <2>6. ClusterInv'
    <3> HIDE DEF E2, X2
    <3> QED BY <2>2, <2>3, <2>4, <2>5, PoolMade
  <2>7. Registry!RegistryRemove(p)
    <3>1. /\ off <=> Addr[p] \in Registry!Addrs(disabled)
          /\ Addr[p] \in Registry!Addrs(Registry!Known)
      BY <1>2, Reads
    <3>2. answer' = Registry!Answer(TRUE, {}, {}, {})
      BY <2>1 DEF Accepted, Answer, Registry!Answer
    <3> HIDE DEF off
    <3> QED BY <1>2, <2>1, <2>2, <3>1, <3>2 DEF Registry!RegistryRemove
  <2> QED BY <2>3, <2>6, <2>7 DEF StepOK, Registry!RegistryNext
<1> QED BY <1>1, <1>2

\* So is Disable, which moves a peer out of the list.
LEMMA DisableStep ==
    ASSUME ClusterInv, NEW p \in Pools, Disable(p)
    PROVE  StepOK /\ answer'.removed = {}
<1> DEFINE E == ToSet(peers)
           E2 == Registry!Others(E, p)
           X2 == Registry!Others(disabled, p) \cup {p}
<1>1. CASE terminated \/ ~Listed(p)
  <2>1. Refused /\ terminated' = terminated
    BY <1>1 DEF Disable
  <2> QED BY <2>1, RefusedStep
<1>2. CASE ~(terminated \/ ~Listed(p))
  <2>1. /\ RemovePeer(p) /\ disabled' = (disabled \ At(disabled, p)) \cup {p}
        /\ Accepted /\ terminated' = terminated
    BY <1>2 DEF Disable
  <2>2. IsListOf(peers', E2) /\ ToSet(peers') = E2 /\ disabled' = X2
    BY <2>1, RemovePeerMeans, Reads DEF IsListOf
  <2>3. answer'.removed = {}
    BY <2>1 DEF Accepted, Answer
  <2>4. /\ E2 \subseteq E /\ X2 \subseteq disabled \cup {p}
        /\ \A q \in E2 \cup X2 : Addr[q] = Addr[p] => q = p
    BY DEF Registry!Others
  <2>5. ClusterInv'
    <3> HIDE DEF E2, X2
    <3> QED BY <2>2, <2>3, <2>4, PoolMade
  <2>6. Registry!RegistryDisable(p)
    <3>1. Addr[p] \in Registry!Addrs(E)
      BY <1>2, Reads
    <3>2. answer' = Registry!Answer(TRUE, {}, {}, {})
      BY <2>1 DEF Accepted, Answer, Registry!Answer
    <3> QED BY <1>2, <2>1, <2>2, <3>1, <3>2 DEF Registry!RegistryDisable
  <2> QED BY <2>3, <2>5, <2>6 DEF StepOK, Registry!RegistryNext
<1> QED BY <1>1, <1>2

\* So is Enable, which moves it back unless its address is listed.
LEMMA EnableStep ==
    ASSUME ClusterInv, NEW p \in Pools, Enable(p)
    PROVE  StepOK /\ answer'.removed = {}
<1> DEFINE E == ToSet(peers)
           X2 == Registry!Others(disabled, p)
<1>0. X2 \subseteq disabled /\ \A q \in X2 : Addr[q] # Addr[p]
  BY DEF Registry!Others
<1>1. CASE terminated \/ At(disabled, p) = {}
  <2>1. Refused /\ terminated' = terminated
    BY <1>1 DEF Enable
  <2> QED BY <2>1, RefusedStep
<1>2. CASE ~(terminated \/ At(disabled, p) = {})
  <2>1. /\ disabled' = X2 /\ terminated' = terminated
        /\ IF Listed(p)
           THEN answer' = Answer(FALSE, {}, {}, {}) /\ peers' = peers
           ELSE InsertPeer(p) /\ Accepted
    BY <1>2, Reads DEF Enable
  <2>2. Addr[p] \in Registry!Addrs(disabled) /\ ~terminated
    BY <1>2, Reads
  <2> HIDE DEF X2
  <2>3. CASE Listed(p)
    <3>1. IsListOf(peers', E) /\ ToSet(peers') = E
      BY <2>1, <2>3 DEF ClusterInv
    <3>2. answer' = Registry!Answer(FALSE, {}, {}, {}) /\ answer'.removed = {}
      BY <2>1, <2>3 DEF Answer, Registry!Answer
    <3>3. \A q \in E \cup disabled : p \in E \cup disabled /\ Addr[q] = Addr[p] => q = p
      BY DEF ClusterInv, Distinct
    <3>4. ClusterInv'
      BY <1>0, <2>1, <3>1, <3>2, <3>3, PoolMade
    <3>5. Registry!RegistryEnable(p)
      <4>1. Addr[p] \in Registry!Addrs(E)
        BY <2>3, Reads
      <4> QED BY <2>1, <2>2, <3>1, <3>2, <4>1 DEF Registry!RegistryEnable, X2
    <3> QED BY <3>2, <3>4, <3>5 DEF StepOK, Registry!RegistryNext
  <2>4. CASE ~Listed(p)
    <3>1. IsListOf(peers', E \cup {p}) /\ ToSet(peers') = E \cup {p}
      BY <2>1, <2>4, InsertPeerMeans DEF IsListOf
    <3>2. answer' = Registry!Answer(TRUE, {}, {}, {}) /\ answer'.removed = {}
      BY <2>1, <2>4 DEF Accepted, Answer, Registry!Answer
    <3>3. \A q \in E : Addr[q] # Addr[p]
      BY <2>4 DEF Listed, At
    <3>4. ClusterInv'
      BY <1>0, <2>1, <3>1, <3>2, <3>3, PoolMade
    <3>5. Registry!RegistryEnable(p)
      <4>1. Addr[p] \notin Registry!Addrs(E)
        BY <2>4, Reads
      <4> QED BY <2>1, <2>2, <3>1, <3>2, <4>1 DEF Registry!RegistryEnable, X2
    <3> QED BY <3>2, <3>4, <3>5 DEF StepOK, Registry!RegistryNext
  <2> QED BY <2>3, <2>4
<1> QED BY <1>1, <1>2

\* So is Terminate, which empties the list.
LEMMA TerminateStep ==
    ASSUME ClusterInv, Terminate
    PROVE  StepOK /\ RemovedOK
<1>1. /\ terminated' = TRUE /\ peers' = <<>> /\ disabled' = disabled /\ answer' = answer
  BY DEF Terminate
<1>2. IsListOf(peers', {}) /\ ToSet(peers') = {}
  BY <1>1, NoPeers DEF IsListOf
<1>3. answer'.removed \cap disabled = {}
  BY <1>1 DEF ClusterInv
<1>4. ClusterInv'
  <2>1. Distinct({} \cup disabled) /\ IsFiniteSet(disabled)
    BY DEF ClusterInv, Distinct
  <2> QED BY <1>1, <1>2, <1>3, <2>1, ClusterMade
<1>5. Registry!RegistryTerminate
  BY <1>1, <1>2 DEF Registry!RegistryTerminate
<1>6. RemovedOK
  BY <1>1, <1>2, <1>3 DEF RemovedOK
<1> QED BY <1>4, <1>5, <1>6 DEF StepOK, Registry!RegistryNext

-----------------------------------------------------------------------------
(* The theorems *)

RegistryVars == <<ToSet(peers), disabled, terminated, answer>>

\* The initial state is one of the registry, and has the invariant.
LEMMA ClusterInit == Init => ClusterInv /\ Registry!RegistryInit
<1> SUFFICES ASSUME Init
             PROVE  ClusterInv /\ Registry!RegistryInit
  OBVIOUS
<1>1. /\ peers = <<>> /\ disabled = {} /\ terminated = FALSE
      /\ answer = Answer(FALSE, {}, {}, {})
  BY DEF Init
<1>2. IsListOf(peers, {}) /\ ToSet(peers) = {}
  BY <1>1, NoPeers DEF IsListOf
<1>3. Distinct({} \cup {}) /\ IsFiniteSet({})
  BY FS_EmptySet DEF Distinct
<1>4. ClusterInv
  BY <1>1, <1>2, <1>3 DEF ClusterInv
<1>5. Registry!RegistryInit
  BY <1>1, <1>2 DEF Registry!RegistryInit, Registry!Answer, Answer
<1> QED BY <1>4, <1>5

\* Each step keeps the invariant, is one that RemovedIsGone allows, and is a step of
\* the registry; or it changes nothing that they speak of.
LEMMA ClusterStep ==
    GivenAssumption /\ ClusterInv /\ [Next]_vars
        => /\ ClusterInv'
           /\ RemovedOK \/ UNCHANGED <<peers, disabled, answer>>
           /\ Registry!RegistryNext \/ UNCHANGED RegistryVars
<1> DEFINE Same == UNCHANGED <<peers, disabled, terminated, answer>>
<1> SUFFICES ASSUME GivenAssumption, ClusterInv, [Next]_vars
             PROVE  /\ ClusterInv'
                    /\ RemovedOK \/ UNCHANGED <<peers, disabled, answer>>
                    /\ Registry!RegistryNext \/ UNCHANGED RegistryVars
  OBVIOUS
<1>1. ASSUME NEW ps \in Given, NEW disable \in BOOLEAN, Reset(ps, disable)
      PROVE  StepOK /\ RemovedOK
  BY <1>1, ResetStep
<1>2. (answer'.removed = {}) => RemovedOK
  BY DEF RemovedOK
<1>3. ASSUME NEW p \in Pools, Insert(p) PROVE StepOK /\ RemovedOK
  BY <1>2, <1>3, InsertStep
<1>4. ASSUME NEW p \in Pools, RemovePool(p) PROVE StepOK /\ RemovedOK
  BY <1>2, <1>4, RemovePoolStep
<1>5. ASSUME NEW p \in Pools, Disable(p) PROVE StepOK /\ RemovedOK
  BY <1>2, <1>5, DisableStep
<1>6. ASSUME NEW p \in Pools, Enable(p) PROVE StepOK /\ RemovedOK
  BY <1>2, <1>6, EnableStep
<1>7. ASSUME Terminate PROVE StepOK /\ RemovedOK
  BY <1>7, TerminateStep
<1>8. ASSUME Same
      PROVE  /\ ClusterInv' /\ UNCHANGED <<peers, disabled, answer>>
             /\ UNCHANGED RegistryVars
  <2>1. peers' = peers /\ disabled' = disabled /\ terminated' = terminated /\ answer' = answer
    BY <1>8
  <2>2. ClusterInv'
    BY <2>1 DEF ClusterInv, IsListOf, Distinct, Unique
  <2> QED BY <2>1, <2>2 DEF RegistryVars
<1>9. ASSUME NEW p \in Pools, Stop(p) PROVE Same
  BY <1>9 DEF Stop
<1>10. ASSUME UNCHANGED vars PROVE Same
  BY <1>10 DEF vars
<1> HIDE DEF Same
<1>11. (StepOK /\ RemovedOK) \/ Same
  BY <1>1, <1>3, <1>4, <1>5, <1>6, <1>7, <1>9, <1>10, Zenon DEF Next
<1> QED BY <1>8, <1>11 DEF StepOK

\* Cluster "is a wrapper around unique slice of Pools": an address is in the list
\* once, whatever was inserted, removed, disabled, enabled or reset, as long as no
\* slice given to Reset repeats an address.
THEOREM UniquePeersHolds == ASSUME GivenAssumption PROVE Spec => []UniquePeers
<1>1. Init => ClusterInv
  BY ClusterInit
<1>2. ClusterInv /\ [Next]_vars => ClusterInv'
  BY ClusterStep
<1>3. ClusterInv => UniquePeers
  BY DEF ClusterInv, IsListOf, Unique, UniquePeers
<1> QED BY <1>1, <1>2, <1>3, PTL DEF Spec

\* What Reset returns as removed cannot be enabled, and is in the list only if it was
\* listed and disabled at once before: also for slices that name disabled peers.
THEOREM RemovedIsGoneHolds == ASSUME GivenAssumption PROVE Spec => RemovedIsGone
<1>1. Init => ClusterInv
  BY ClusterInit
<1>2. ClusterInv /\ [Next]_vars => ClusterInv' /\ [RemovedOK]_<<peers, disabled, answer>>
  BY ClusterStep
<1>3. Spec => [][RemovedOK]_<<peers, disabled, answer>>
  BY <1>1, <1>2, PTL DEF Spec
<1> QED BY <1>3 DEF RemovedIsGone, RemovedOK

\* The slices and the in-place merge of reset implement the sets of PeerRegistry:
\* each Reset inserts, removes, keeps and ignores what its doc says, and removes one
\* place of a pool that was both listed and disabled.
THEOREM ImplementsRegistryHolds == ASSUME GivenAssumption PROVE Spec => ImplementsRegistry
<1>1. Init => ClusterInv /\ Registry!RegistryInit
  BY ClusterInit
<1>2. ClusterInv /\ [Next]_vars => ClusterInv' /\ [Registry!RegistryNext]_RegistryVars
  BY ClusterStep
<1>3. Spec => Registry!RegistryInit /\ [][Registry!RegistryNext]_RegistryVars
  BY <1>1, <1>2, PTL DEF Spec
<1> QED BY <1>3 DEF ImplementsRegistry, Registry!RegistrySpec, RegistryVars
=============================================================================
