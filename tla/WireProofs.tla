------------------------------ MODULE WireProofs ------------------------------
(* What travels on the wires of pkg/iproto and pkg/octopus, proved for any     *)
(* number of goroutines, calls, packets and bytes: the queue and the datagrams *)
(* of PacketServer.tla, then the integers, strings and packets of Wire.tla,    *)
(* the requests and responses of Octopus.tla, and BoxSession.tla.              *)
EXTENDS PacketServer, BoxSession, FunctionTheorems, WellFoundedInduction,
        SequenceTheorems, TLAPS

-----------------------------------------------------------------------------
(* Recursive functions on an interval *)

\* A set of numbers that is not empty has a least element.
LEMMA Least ==
    ASSUME NEW T \in SUBSET Nat, T # {}
    PROVE  \E x \in T : \A y \in T : x <= y
<1>1. PICK x \in T : \A y \in T : ~(<<y, x>> \in OpToRel(<, Nat))
  BY NatLessThanWellFounded, WFMin, Zenon
<1>2. ASSUME NEW y \in T PROVE x <= y
  <2>1. <<y, x>> \notin {ss \in Nat \X Nat : ss[1] < ss[2]}
    BY <1>1 DEF OpToRel
  <2> QED BY <2>1
<1> QED BY <1>2

\* Two functions that agree at the first index, and at each further one if they
\* agree before it, agree.
Agree(f, h, m) == f[m] = h[m]
AgreeOn(f, h, m, n) == \A i \in m + 1..n : Agree(f, h, i - 1) => Agree(f, h, i)

\* Functions that agree at m and step alike from m to n agree at n.
LEMMA SameFrom ==
    ASSUME NEW m \in Nat, NEW n \in Nat, m <= n, NEW f, NEW h,
           Agree(f, h, m), AgreeOn(f, h, m, n)
    PROVE  Agree(f, h, n)
<1> USE DEF Agree, AgreeOn
<1> DEFINE Bad == {i \in m..n : f[i] # h[i]}
<1>1. SUFFICES ASSUME Bad # {} PROVE FALSE
  OBVIOUS
<1>2. PICK x \in Bad : \A y \in Bad : x <= y
  <2>1. Bad \in SUBSET Nat
    OBVIOUS
  <2> HIDE DEF Bad
  <2> QED BY <1>1, <2>1, Least
<1>3. x \in m + 1..n /\ x - 1 \in m..n
  BY <1>2
<1>4. x - 1 \notin Bad
  BY <1>2, <1>3
<1> QED BY <1>2, <1>3, <1>4

\* A recursion along an interval has a solution.
Steps(T, n, g) == g \in [1..n -> [T -> T]]
Solution(T, n, e, g, f) ==
    f \in [0..n -> T] /\ f[0] = e /\ \A i \in 1..n : f[i] = g[i][f[i - 1]]

\* A function that is given by its first value and its steps exists.
LEMMA Recursion ==
    ASSUME NEW T, NEW n \in Nat, NEW e \in T, NEW g, Steps(T, n, g)
    PROVE  \E f : Solution(T, n, e, g, f)
<1> DEFINE Solves(f, k) == f[0] = e /\ \A i \in 1..k : f[i] = g[i][f[i - 1]]
           Solvable(k) == \E f \in [0..k -> T] : Solves(f, k)
           Bad == {k \in 0..n : ~Solvable(k)}
<1> USE DEF Steps
<1>1. SUFFICES ASSUME Bad # {} PROVE FALSE
  <2>1. (Bad = {}) => Solvable(n)
    <3> HIDE DEF Solvable
    <3> QED OBVIOUS
  <2>2. Solvable(n) => \E f : Solution(T, n, e, g, f)
    BY DEF Solution
  <2> HIDE DEF Bad, Solvable
  <2> QED BY <2>1, <2>2
<1>2. PICK x \in Bad : \A y \in Bad : x <= y
  <2>1. Bad \in SUBSET Nat
    OBVIOUS
  <2> HIDE DEF Bad
  <2> QED BY <1>1, <2>1, Least
<1>3. x # 0
  <2> DEFINE c == [i \in 0..0 |-> e]
  <2>1. c \in [0..0 -> T] /\ Solves(c, 0)
    OBVIOUS
  <2>2. Solvable(0)
    <3> HIDE DEF c
    <3> QED BY <2>1
  <2> HIDE DEF Solvable
  <2> QED BY <2>2
<1>4. PICK f \in [0..x - 1 -> T] : Solves(f, x - 1)
  <2>1. x - 1 \in 0..n /\ ~(x <= x - 1)
    BY <1>3
  <2>2. Solvable(x - 1)
    <3> HIDE DEF Solvable
    <3> QED BY <1>2, <2>1
  <2> QED BY <2>2
<1> DEFINE h == [i \in 0..x |-> IF i = x THEN g[x][f[x - 1]] ELSE f[i]]
<1>5. x \in 1..n /\ x - 1 \in 0..x - 1
  BY <1>2, <1>3
<1>6. h \in [0..x -> T]
  BY <1>4, <1>5
<1>7. h[0] = e
  BY <1>4, <1>5
<1>8. ASSUME NEW i \in 1..x PROVE h[i] = g[i][h[i - 1]]
  <2>1. CASE i = x
    BY <1>5, <2>1
  <2>2. CASE i # x
    <3>1. i \in 1..x - 1 /\ i - 1 \in 0..x /\ i - 1 # x /\ i \in 0..x
      BY <1>5, <2>2
    <3>2. h[i] = f[i] /\ h[i - 1] = f[i - 1]
      BY <2>2, <3>1
    <3> QED BY <1>4, <3>1, <3>2
  <2> QED BY <2>1, <2>2
<1>9. Solvable(x)
  <2>1. Solves(h, x)
    BY <1>7, <1>8
  <2> HIDE DEF h
  <2> QED BY <1>6, <2>1
<1> HIDE DEF Solvable
<1> QED BY <1>2, <1>9

-----------------------------------------------------------------------------
(* The size of packets *)

SizeSums(s, f) ==
    /\ f \in [0..Len(s) -> Int] /\ f[0] = 0
    /\ \A i \in 1..Len(s) : f[i] = f[i - 1] + s[i].size

\* Partial sums end with the size.
LEMMA SizeIs ==
    ASSUME NEW S, NEW s \in Seq(S), NEW f, SizeSums(s, f)
    PROVE  SizeOf(s) = f[Len(s)]
<1> DEFINE Eq(h) == h = [i \in 0..Len(s) |-> IF i = 0 THEN 0 ELSE h[i - 1] + s[i].size]
           size == CHOOSE h : Eq(h)
<1>0. Len(s) \in Nat
  OBVIOUS
<1>1. Eq(f)
  <2>1. \A i \in 0..Len(s) : f[i] = IF i = 0 THEN 0 ELSE f[i - 1] + s[i].size
    BY <1>0 DEF SizeSums
  <2>2. f \in [0..Len(s) -> Int]
    BY DEF SizeSums
  <2> QED BY <2>1, <2>2
<1>2. Eq(size)
  BY <1>1, Zenon
<1>3. \A i \in 0..Len(s) : size[i] = IF i = 0 THEN 0 ELSE size[i - 1] + s[i].size
  <2> HIDE DEF size
  <2> QED BY <1>2
<1> HIDE DEF size
<1>4. Agree(f, size, 0) /\ AgreeOn(f, size, 0, Len(s))
  BY <1>0, <1>3 DEF SizeSums, Agree, AgreeOn
<1>5. f[Len(s)] = size[Len(s)]
  <2> DEFINE m == 0
             n == Len(s)
  <2>1. m \in Nat /\ n \in Nat /\ m <= n /\ Agree(f, size, m) /\ AgreeOn(f, size, m, n)
    BY <1>0, <1>4
  <2> HIDE DEF m, n
  <2>2. Agree(f, size, n)
    BY <2>1, SameFrom, Zenon
  <2> QED BY <2>2 DEF Agree, n
<1>6. SizeOf(s) = size[Len(s)]
  BY Zenon DEF SizeOf, size
<1> QED BY <1>5, <1>6

\* No packets have no size,
LEMMA SizeOfNone == SizeOf(<<>>) = 0
<1> DEFINE f == [i \in 0..0 |-> 0]
<1>1. <<>> \in Seq(Int) /\ Len(<<>>) = 0
  OBVIOUS
<1>2. SizeSums(<<>>, f) /\ f[Len(<<>>)] = 0
  BY DEF SizeSums
<1> HIDE DEF f
<1> QED BY <1>1, <1>2, SizeIs

\* A packet at the end adds its size.
LEMMA SizeOfAppend ==
    ASSUME NEW S, \A p \in S : p.size \in Int, NEW s \in Seq(S), NEW b \in S
    PROVE  SizeOf(s) \in Int /\ SizeOf(Append(s, b)) = SizeOf(s) + b.size
<1> DEFINE t == Append(s, b)
           n == Len(s)
           g == [i \in 1..n + 1 |-> [x \in Int |-> x + t[i].size]]
<1>1. /\ n \in Nat /\ Len(t) = n + 1 /\ t \in Seq(S)
      /\ t[n + 1] = b /\ \A i \in 1..n : t[i] = s[i]
  OBVIOUS
<1> HIDE DEF t, n
<1>2. Steps(Int, n + 1, g)
  <2>1. \A i \in 1..n + 1 : t[i].size \in Int
    BY <1>1
  <2> QED BY <2>1 DEF Steps
<1>3. PICK f : Solution(Int, n + 1, 0, g, f)
  <2> DEFINE k == n + 1
             e == 0
  <2>1. k \in Nat /\ e \in Int /\ Steps(Int, k, g)
    BY <1>1, <1>2
  <2> HIDE DEF k, e, g
  <2>2. \E f : Solution(Int, k, e, g, f)
    BY <2>1, Recursion, Zenon
  <2> QED BY <2>2 DEF k, e
<1>4. \A i \in 1..n + 1 : f[i] = f[i - 1] + t[i].size
  <2>1. \A i \in 1..n + 1 : f[i - 1] \in Int
    BY <1>1, <1>3 DEF Solution
  <2> QED BY <1>3, <2>1 DEF Solution
<1>5. SizeOf(t) = f[n + 1]
  <2>1. SizeSums(t, f)
    BY <1>1, <1>3, <1>4 DEF SizeSums, Solution
  <2> QED BY <1>1, <2>1, SizeIs
<1> DEFINE h == [i \in 0..n |-> f[i]]
<1>6. h[n] = f[n] /\ SizeSums(s, h)
  BY <1>1, <1>3, <1>4 DEF SizeSums, Solution, n
<1>7. SizeOf(s) = f[n]
  <2> HIDE DEF h
  <2>1. SizeOf(s) = h[Len(s)]
    BY <1>6, SizeIs, Zenon
  <2>2. n = Len(s)
    BY DEF n
  <2> QED BY <1>6, <2>1, <2>2
<1> QED BY <1>1, <1>3, <1>4, <1>5, <1>7 DEF Solution, t

-----------------------------------------------------------------------------
(* Sequences that are joined *)

FlatSums(S, ws, f) ==
    /\ f \in [0..Len(ws) -> Seq(S)] /\ f[0] = <<>>
    /\ \A i \in 1..Len(ws) : f[i] = f[i - 1] \o ws[i]

\* Partial joins end with the whole.
LEMMA FlattenIs ==
    ASSUME NEW S, NEW ws \in Seq(Seq(S)), NEW f, FlatSums(S, ws, f)
    PROVE  FlattenSeq(ws) = f[Len(ws)]
<1> DEFINE n == Len(ws)
<1>0. /\ n \in Nat /\ f \in [0..n -> Seq(S)] /\ f[0] = <<>>
      /\ \A i \in 1..n : f[i] = f[i - 1] \o ws[i]
  <2>1. Len(ws) \in Nat
    OBVIOUS
  <2> QED BY <2>1, Zenon DEF FlatSums
<1>1. CASE n = 0
  BY <1>0, <1>1 DEF FlattenSeq
<1>2. CASE n > 0
  <2> DEFINE Eq(h) == h = [i \in 1..n |-> IF i = 1 THEN ws[i] ELSE h[i - 1] \o ws[i]]
             flatten == CHOOSE h : Eq(h)
             u == [i \in 1..n |-> f[i]]
  <2>1. Eq(u)
    <3>1. f[1] = ws[1]
      <4>1. 1 \in 1..n /\ ws[1] \in Seq(S)
        BY <1>0, <1>2
      <4>2. f[1] = f[1 - 1] \o ws[1]
        BY <1>0, <4>1
      <4>3. f[1] = <<>> \o ws[1]
        <5>1. 1 - 1 = 0
          OBVIOUS
        <5> QED BY <1>0, <4>2, <5>1, Zenon
      <4> QED BY <4>1, <4>3
    <3>2. \A i \in 1..n : i # 1 => i - 1 \in 1..n
      BY <1>0
    <3>3. \A i \in 1..n : f[i] = f[i - 1] \o ws[i]
      BY <1>0, Zenon
    <3> HIDE DEF n
    <3> QED BY <3>1, <3>2, <3>3
  <2>2. Eq(flatten)
    <3> HIDE DEF u, Eq
    <3> QED BY <2>1, Zenon
  <2> HIDE DEF flatten
  <2>3. \A i \in 1..n : flatten[i] = IF i = 1 THEN ws[i] ELSE flatten[i - 1] \o ws[i]
    BY <2>2
  <2>4. Agree(u, flatten, 1) /\ AgreeOn(u, flatten, 1, n)
    <3>1. 1 \in 1..n
      BY <1>0, <1>2
    <3>2. \A i \in 1..n : u[i] = IF i = 1 THEN ws[i] ELSE u[i - 1] \o ws[i]
      <4> HIDE DEF u
      <4> QED BY <2>1
    <3> HIDE DEF u
    <3> QED BY <2>3, <3>1, <3>2 DEF Agree, AgreeOn
  <2>5. u[n] = flatten[n]
    <3> DEFINE m == 1
    <3>1. m \in Nat /\ n \in Nat /\ m <= n /\ Agree(u, flatten, m) /\ AgreeOn(u, flatten, m, n)
      BY <1>0, <1>2, <2>4
    <3> HIDE DEF m, n, u
    <3>2. Agree(u, flatten, n)
      BY <3>1, SameFrom, Zenon
    <3> QED BY <3>2 DEF Agree
  <2>6. FlattenSeq(ws) = flatten[n]
    <3>1. Len(ws) # 0
      BY <1>2
    <3> QED BY <3>1, Zenon DEF FlattenSeq, flatten
  <2> QED BY <1>0, <1>2, <2>5, <2>6
<1> QED BY <1>0, <1>1, <1>2

\* and no sequences join to none.
LEMMA FlattenNone == FlattenSeq(<<>>) = <<>>
  BY DEF FlattenSeq

\* A sequence at the end comes after all others.
LEMMA FlattenAppend ==
    ASSUME NEW S, NEW ws \in Seq(Seq(S)), NEW p \in Seq(S)
    PROVE  /\ FlattenSeq(ws) \in Seq(S)
           /\ FlattenSeq(Append(ws, p)) = FlattenSeq(ws) \o p
<1> DEFINE t == Append(ws, p)
           n == Len(ws)
           T == Seq(S)
           g == [i \in 1..n + 1 |-> [x \in T |-> x \o t[i]]]
<1>1. /\ n \in Nat /\ Len(t) = n + 1 /\ t \in Seq(T)
      /\ t[n + 1] = p /\ \A i \in 1..n : t[i] = ws[i]
  OBVIOUS
<1> HIDE DEF t, n
<1>2. Steps(T, n + 1, g)
  <2>1. \A i \in 1..n + 1 : t[i] \in Seq(S)
    BY <1>1
  <2>2. \A i \in 1..n + 1 : \A x \in T : x \o t[i] \in T
    BY <2>1
  <2> HIDE DEF T
  <2> QED BY <2>2 DEF Steps
<1>3. PICK f : Solution(T, n + 1, <<>>, g, f)
  <2> DEFINE k == n + 1
             e == <<>>
  <2>1. k \in Nat /\ e \in T /\ Steps(T, k, g)
    BY <1>1, <1>2
  <2> HIDE DEF k, e, g, T
  <2>2. \E f : Solution(T, k, e, g, f)
    BY <2>1, Recursion, Zenon
  <2> QED BY <2>2 DEF k, e
<1>4. /\ f \in [0..n + 1 -> Seq(S)] /\ f[0] = <<>>
      /\ \A i \in 1..n + 1 : f[i] = f[i - 1] \o t[i]
  <2>1. f \in [0..n + 1 -> T] /\ f[0] = <<>> /\ \A i \in 1..n + 1 : f[i] = g[i][f[i - 1]]
    BY <1>3 DEF Solution
  <2>2. \A i \in 1..n + 1 : f[i - 1] \in T
    BY <1>1, <2>1
  <2>3. \A i \in 1..n + 1 : \A x \in T : g[i][x] = x \o t[i]
    OBVIOUS
  <2> HIDE DEF g
  <2> QED BY <2>1, <2>2, <2>3
<1>5. FlattenSeq(t) = f[n + 1]
  <2>1. FlatSums(S, t, f)
    BY <1>1, <1>4 DEF FlatSums
  <2> QED BY <1>1, <2>1, FlattenIs
<1> DEFINE h == [i \in 0..n |-> f[i]]
<1>6. h[n] = f[n] /\ FlatSums(S, ws, h)
  <2>1. h \in [0..n -> Seq(S)] /\ h[0] = <<>> /\ h[n] = f[n]
    BY <1>1, <1>4
  <2>2. ASSUME NEW i \in 1..n PROVE h[i] = h[i - 1] \o ws[i]
    <3>1. i \in 1..n + 1 /\ h[i] = f[i] /\ h[i - 1] = f[i - 1] /\ t[i] = ws[i]
      BY <1>1
    <3> QED BY <1>4, <3>1, Zenon
  <2> HIDE DEF h
  <2> QED BY <2>1, <2>2, Zenon DEF FlatSums, n
<1>7. FlattenSeq(ws) = f[n]
  <2> HIDE DEF h
  <2>1. FlattenSeq(ws) = h[Len(ws)]
    BY <1>6, FlattenIs, Zenon
  <2>2. n = Len(ws)
    BY DEF n
  <2> QED BY <1>6, <2>1, <2>2
<1>8. f[n] \in Seq(S) /\ f[n + 1] = f[n] \o p
  <2>1. n \in 0..n + 1 /\ n + 1 \in 1..n + 1 /\ (n + 1) - 1 = n
    BY <1>1
  <2> QED BY <1>1, <1>4, <2>1, Zenon
<1> QED BY <1>5, <1>7, <1>8 DEF t

-----------------------------------------------------------------------------
(* Sequences of packets *)

\* Concatenation is associative.
LEMMA Associative ==
    ASSUME NEW S, NEW x \in Seq(S), NEW y \in Seq(S), NEW z \in Seq(S)
    PROVE  (x \o y) \o z = x \o (y \o z)
  OBVIOUS

\* A sequence that is not empty is its head before its tail.
LEMMA HeadAndTail ==
    ASSUME NEW S, NEW x \in Seq(S), x # <<>>
    PROVE  /\ Head(x) \in S /\ Tail(x) \in Seq(S) /\ Len(Tail(x)) = Len(x) - 1
           /\ x = <<Head(x)>> \o Tail(x)
  OBVIOUS

\* The first element of o may be counted with what is before o.
Moves(x, o) == (x \o <<Head(o)>>) \o Tail(o) = x \o o

\* Moving the head of one sequence to the end of another keeps their join.
LEMMA HeadMoves ==
    ASSUME NEW S, NEW x \in Seq(S), NEW o \in Seq(S), o # <<>>
    PROVE  Moves(x, o)
<1>1. /\ <<Head(o)>> \in Seq(S) /\ Tail(o) \in Seq(S)
      /\ o = <<Head(o)>> \o Tail(o)
  BY HeadAndTail
<1>2. (x \o <<Head(o)>>) \o Tail(o) = x \o (<<Head(o)>> \o Tail(o))
  BY <1>1, Associative
<1> QED BY <1>1, <1>2, Zenon DEF Moves

\* One packet more adds its size.
LEMMA SizeGrows ==
    ASSUME PacketServerAssumption, NEW s \in Seq(Packets), NEW b \in Packets
    PROVE  SizeOf(s) \in Int /\ b.size \in Nat /\ SizeOf(Append(s, b)) = SizeOf(s) + b.size
<1>1. \A p \in Packets : p.size \in Nat
  BY DEF Packets, PacketServerAssumption
<1>2. \A p \in Packets : p.size \in Int
  BY <1>1
<1> QED BY <1>1, <1>2, SizeOfAppend

-----------------------------------------------------------------------------
(* The writer's buffer *)

Addresses == 1..MaxReads \cup {None}
Wires == [to : Addresses, pkts : Seq(Packets)]
Writers ==
    [addr : Addresses, buf : Seq(Packets), cap : WriterSizes, err : BOOLEAN, wire : Seq(Wires)]

\* The packets of all datagrams that were written.
Joined(ws) == FlattenSeq([i \in DOMAIN ws |-> ws[i].pkts])

IsWhole(d, c) ==
    /\ \A b \in Range(d.pkts) : b.addr = d.to
    /\ Len(d.pkts) = 1 \/ SizeOf(d.pkts) <= c

\* Every datagram is whole, and what is buffered would be one.
WiresWhole(ws, c) == \A i \in DOMAIN ws : IsWhole(ws[i], c)
BufferWhole(s) == (\A b \in Range(s.buf) : b.addr = s.addr) /\ SizeOf(s.buf) <= s.cap
Whole(s) == WiresWhole(s.wire, s.cap) /\ (~s.err => BufferWhole(s))

\* The size of a writer is a number, and an empty buffer fits it.
LEMMA CapIs == PacketServerAssumption => Mtu \in WriterSizes /\ WriterSizes \subseteq Nat
<1> SUFFICES ASSUME PacketServerAssumption
             PROVE  Mtu \in WriterSizes /\ \A n \in WriterSizes : n \in Nat
  OBVIOUS
<1>1. Mtu \in Nat /\ \A c \in PoolSizes : c \in Nat
  BY DEF PacketServerAssumption
<1>2. \A c \in Nat : \A n \in (c \div 2) + 1..c : n \in Nat
  OBVIOUS
<1>3. ASSUME NEW n \in WriterSizes PROVE n \in Nat
  <2>1. n = Mtu \/ \E c \in PoolSizes : n \in (c \div 2) + 1..c
    BY DEF WriterSizes
  <2> QED BY <1>1, <1>2, <2>1
<1> QED BY <1>3 DEF WriterSizes

LEMMA NothingFits ==
    ASSUME PacketServerAssumption, NEW c \in WriterSizes
    PROVE  SizeOf(<<>>) <= c /\ Range(<<>>) = {}
<1>1. c \in Nat
  BY CapIs
<1> QED BY <1>1, SizeOfNone DEF Range

\* One datagram more adds its packets.
LEMMA JoinedAppend ==
    ASSUME NEW ws \in Seq(Wires), NEW d \in Wires
    PROVE  /\ Joined(ws) \in Seq(Packets)
           /\ Joined(Append(ws, d)) = Joined(ws) \o d.pkts
<1> DEFINE pk(us) == [i \in DOMAIN us |-> us[i].pkts]
<1>1. d.pkts \in Seq(Packets)
  BY DEF Wires
<1>2. pk(ws) \in Seq(Seq(Packets))
  <2>1. \A i \in 1..Len(ws) : ws[i].pkts \in Seq(Packets)
    <3>1. \A i \in 1..Len(ws) : ws[i] \in Wires
      OBVIOUS
    <3>2. \A x \in Wires : x.pkts \in Seq(Packets)
      BY DEF Wires
    <3> QED BY <3>1, <3>2
  <2>2. DOMAIN ws = 1..Len(ws) /\ Len(ws) \in Nat
    OBVIOUS
  <2> QED BY <2>1, <2>2
<1>3. pk(Append(ws, d)) = Append(pk(ws), d.pkts)
  <2> DEFINE n == Len(ws)
             t == Append(ws, d)
  <2>1. /\ n \in Nat /\ DOMAIN ws = 1..n /\ DOMAIN t = 1..n + 1
        /\ t[n + 1] = d /\ \A i \in 1..n : t[i] = ws[i]
    OBVIOUS
  <2> DEFINE u == Append(pk(ws), d.pkts)
  <2>2. DOMAIN pk(ws) = 1..n /\ Len(pk(ws)) = n
    BY <1>2, <2>1
  <2>3. /\ DOMAIN u = 1..n + 1 /\ u[n + 1] = d.pkts
        /\ \A i \in 1..n : u[i] = pk(ws)[i]
    <3> DEFINE v == pk(ws)
    <3> HIDE DEF v
    <3>1. v \in Seq(Seq(Packets)) /\ Len(v) = n
      BY <1>2, <2>2 DEF v
    <3> QED BY <1>1, <2>1, <3>1
  <2>4. \A i \in 1..n + 1 : u[i] = t[i].pkts
    <3>1. ASSUME NEW i \in 1..n + 1 PROVE u[i] = t[i].pkts
      <4>1. CASE i = n + 1
        BY <2>1, <2>3, <4>1
      <4>2. CASE i # n + 1
        <5>1. i \in 1..n
          BY <2>1, <4>2
        <5>2. u[i] = ws[i].pkts /\ t[i] = ws[i]
          BY <2>1, <2>3, <5>1
        <5> QED BY <5>2
      <4> QED BY <4>1, <4>2
    <3> QED BY <3>1
  <2>5. u = [i \in 1..n + 1 |-> u[i]]
    <3> DEFINE v == pk(ws)
    <3> HIDE DEF v
    <3>1. v \in Seq(Seq(Packets)) /\ Len(v) = n
      BY <1>2, <2>2 DEF v
    <3> QED BY <1>1, <2>1, <3>1
  <2>6. pk(t) = [i \in 1..n + 1 |-> t[i].pkts]
    BY <2>1
  <2> HIDE DEF u, t, n
  <2>7. pk(t) = u
    BY <2>4, <2>5, <2>6
  <2> QED BY <2>7 DEF u, t
<1> HIDE DEF pk
<1>4. /\ FlattenSeq(pk(ws)) \in Seq(Packets)
      /\ FlattenSeq(Append(pk(ws), d.pkts)) = FlattenSeq(pk(ws)) \o d.pkts
  BY <1>1, <1>2, FlattenAppend
<1> QED BY <1>3, <1>4, Zenon DEF Joined, pk

\* A datagram that is whole may be added.
LEMMA WiresAppend ==
    ASSUME NEW ws \in Seq(Wires), NEW d \in Wires, NEW c, WiresWhole(ws, c), IsWhole(d, c)
    PROVE  Append(ws, d) \in Seq(Wires) /\ WiresWhole(Append(ws, d), c)
<1>1. ASSUME NEW i \in DOMAIN Append(ws, d) PROVE IsWhole(Append(ws, d)[i], c)
  <2>1. Append(ws, d)[i] = d \/ (i \in DOMAIN ws /\ Append(ws, d)[i] = ws[i])
    OBVIOUS
  <2> QED BY <2>1 DEF WiresWhole
<1> QED BY <1>1 DEF WiresWhole

\* The fields of a writer,
LEMMA WriterFields ==
    ASSUME NEW s \in Writers
    PROVE  /\ s.addr \in Addresses /\ s.buf \in Seq(Packets) /\ s.err \in BOOLEAN
           /\ s.wire \in Seq(Wires) /\ s.cap \in WriterSizes
           /\ s = [addr |-> s.addr, buf |-> s.buf, cap |-> s.cap, err |-> s.err,
                   wire |-> s.wire]
  BY DEF Writers

\* and a writer of such fields.
LEMMA WriterMade ==
    ASSUME NEW a \in Addresses, NEW p \in Seq(Packets), NEW c \in WriterSizes,
           NEW e \in BOOLEAN, NEW v \in Seq(Wires)
    PROVE  [addr |-> a, buf |-> p, cap |-> c, err |-> e, wire |-> v] \in Writers
  BY DEF Writers

\* What t has taken over from s: nothing is lost unless a write has failed.
Keeps(s, t, pkts) ==
    ~t.err => /\ ~s.err
              /\ Joined(t.wire) \o t.buf = (Joined(s.wire) \o s.buf) \o pkts

\* A failed write is sticky and loses nothing that was written.
LEMMA Failing ==
    ASSUME NEW s \in Writers, NEW pkts, Whole(s)
    PROVE  LET t == [s EXCEPT !.err = TRUE]
           IN  t \in Writers /\ t.addr = s.addr /\ t.err /\ Whole(t) /\ Keeps(s, t, pkts)
<1> DEFINE t == [s EXCEPT !.err = TRUE]
<1>1. t = [addr |-> s.addr, buf |-> s.buf, cap |-> s.cap, err |-> TRUE, wire |-> s.wire]
  <2>1. s = [addr |-> s.addr, buf |-> s.buf, cap |-> s.cap, err |-> s.err, wire |-> s.wire]
    BY WriterFields
  <2>2. t = [s EXCEPT !.err = TRUE]
    OBVIOUS
  <2> HIDE DEF t
  <2> QED BY <2>1, <2>2
<1>2. t \in Writers
  <2>1. /\ s.addr \in Addresses /\ s.buf \in Seq(Packets) /\ TRUE \in BOOLEAN
        /\ s.wire \in Seq(Wires) /\ s.cap \in WriterSizes
    BY WriterFields
  <2> HIDE DEF t
  <2> QED BY <1>1, <2>1, WriterMade
<1>3. t.err = TRUE /\ t.wire = s.wire /\ t.addr = s.addr /\ t.cap = s.cap
  BY <1>1
<1> HIDE DEF t
<1>4. Whole(t) /\ Keeps(s, t, pkts)
  BY <1>3 DEF Whole, Keeps
<1> QED BY <1>2, <1>3, <1>4 DEF t

\* A flush writes what is buffered as one datagram, or fails.
LEMMA FlushMeans ==
    ASSUME PacketServerAssumption, NEW s \in Writers, NEW fails \in BOOLEAN, Whole(s)
    PROVE  LET t == Flush(s, fails)
           IN  /\ t \in Writers /\ t.addr = s.addr /\ Whole(t)
               /\ Keeps(s, t, <<>>)
               /\ ~t.err => t.buf = <<>>
<1> DEFINE t == Flush(s, fails)
<1>0. /\ s.addr \in Addresses /\ s.buf \in Seq(Packets) /\ s.err \in BOOLEAN
      /\ s.wire \in Seq(Wires) /\ s.cap \in WriterSizes
  BY WriterFields
<1>1. CASE s.buf = <<>> \/ s.err
  <2>1. t = s
    BY <1>1 DEF Flush
  <2>2. Joined(s.wire) \in Seq(Packets)
    <3>1. [to |-> s.addr, pkts |-> s.buf] \in Wires
      BY <1>0 DEF Wires
    <3> QED BY <1>0, <3>1, JoinedAppend
  <2>3. (Joined(s.wire) \o s.buf) \o <<>> = Joined(s.wire) \o s.buf
    BY <1>0, <2>2
  <2>4. Keeps(s, s, <<>>) /\ (~s.err => s.buf = <<>>)
    BY <1>1, <2>3 DEF Keeps
  <2> QED BY <2>1, <2>4
<1>2. CASE ~(s.buf = <<>> \/ s.err) /\ fails
  <2>1. t = [s EXCEPT !.err = TRUE]
    BY <1>2 DEF Flush
  <2>2. t \in Writers /\ t.addr = s.addr /\ t.err /\ Whole(t) /\ Keeps(s, t, <<>>)
    BY <2>1, Failing
  <2> HIDE DEF t
  <2> QED BY <2>2 DEF t
<1>3. CASE ~(s.buf = <<>> \/ s.err) /\ ~fails
  <2> DEFINE d == Datagram(s.addr, s.buf)
             v == Append(s.wire, d)
  <2>1. d \in Wires /\ d.pkts = s.buf /\ d.to = s.addr
    BY <1>0 DEF Wires, Datagram
  <2>2. t = [s EXCEPT !.buf = <<>>, !.wire = v]
    BY <1>3 DEF Flush
  <2> HIDE DEF d
  <2>3. IsWhole(d, s.cap)
    BY <1>3, <2>1 DEF Whole, BufferWhole, IsWhole
  <2>4. v \in Seq(Wires) /\ WiresWhole(v, s.cap)
    BY <1>0, <2>1, <2>3, WiresAppend DEF Whole
  <2>5. Joined(s.wire) \in Seq(Packets) /\ Joined(v) = Joined(s.wire) \o s.buf
    BY <1>0, <2>1, JoinedAppend
  <2> HIDE DEF v
  <2>6. <<>> \in Seq(Packets)
    OBVIOUS
  <2>7. t = [addr |-> s.addr, buf |-> <<>>, cap |-> s.cap, err |-> s.err, wire |-> v]
    <3>1. s = [addr |-> s.addr, buf |-> s.buf, cap |-> s.cap, err |-> s.err, wire |-> s.wire]
      BY WriterFields
    <3> HIDE DEF t
    <3> QED BY <2>2, <3>1
  <2>8. t \in Writers
    <3> HIDE DEF t
    <3> QED BY <1>0, <2>4, <2>6, <2>7, WriterMade
  <2>9. t.addr = s.addr /\ t.buf = <<>> /\ t.err = FALSE /\ t.wire = v /\ t.cap = s.cap
    BY <1>0, <1>3, <2>7
  <2> HIDE DEF t
  <2>10. Whole(t)
    <3>1. SizeOf(<<>>) <= s.cap /\ Range(<<>>) = {}
      BY <1>0, NothingFits
    <3> QED BY <2>4, <2>9, <3>1 DEF Whole, BufferWhole
  <2>11. Keeps(s, t, <<>>)
    <3>1. Joined(s.wire) \o s.buf \in Seq(Packets)
      BY <1>0, <2>5
    <3>2. Joined(t.wire) \o t.buf = (Joined(s.wire) \o s.buf) \o <<>>
      BY <2>5, <2>9
    <3> QED BY <1>0, <1>3, <3>2 DEF Keeps
  <2> QED BY <2>8, <2>9, <2>10, <2>11 DEF t
<1> QED BY <1>1, <1>2, <1>3

\* A write appends the packet, or sends what does not fit, or fails.
LEMMA WriteMeans ==
    ASSUME PacketServerAssumption, NEW s \in Writers, NEW b \in Packets,
           NEW fails \in BOOLEAN, Whole(s),
           s.err \/ (b.addr = s.addr /\ (s.buf = <<>> \/ b.size <= Available(s)))
    PROVE  LET t == Write(s, b, fails)
           IN  t \in Writers /\ Whole(t) /\ Keeps(s, t, <<b>>)
<1> DEFINE t == Write(s, b, fails)
<1>0. /\ s.addr \in Addresses /\ s.buf \in Seq(Packets) /\ s.err \in BOOLEAN
      /\ s.wire \in Seq(Wires) /\ s.cap \in WriterSizes
      /\ s = [addr |-> s.addr, buf |-> s.buf, cap |-> s.cap, err |-> s.err, wire |-> s.wire]
  BY WriterFields
<1>1. Joined(s.wire) \in Seq(Packets) /\ <<b>> \in Seq(Packets)
  <2>1. [to |-> s.addr, pkts |-> s.buf] \in Wires
    BY <1>0 DEF Wires
  <2> QED BY <1>0, <2>1, JoinedAppend
<1>2. CASE s.err
  <2>1. t = s
    BY <1>2 DEF Write
  <2> HIDE DEF t
  <2>2. Keeps(s, t, <<b>>)
    BY <1>2, <2>1 DEF Keeps
  <2> QED BY <2>1, <2>2 DEF t
<1>3. CASE ~s.err /\ b.size <= Available(s)
  <2> DEFINE p == Append(s.buf, b)
  <2>1. t = [s EXCEPT !.buf = p]
    BY <1>3 DEF Write
  <2>2. p \in Seq(Packets) /\ p = s.buf \o <<b>>
    BY <1>0
  <2>3. SizeOf(p) <= s.cap
    <3>1. SizeOf(s.buf) \in Int /\ b.size \in Nat /\ SizeOf(p) = SizeOf(s.buf) + b.size
      BY <1>0, SizeGrows
    <3>2. s.cap \in Nat
      BY <1>0, CapIs
    <3> HIDE DEF p
    <3> QED BY <1>3, <3>1, <3>2 DEF Available
  <2>4. \A x \in Range(p) : x.addr = s.addr
    <3>1. \A x \in Range(p) : x \in Range(s.buf) \/ x = b
      BY <1>0 DEF Range
    <3> HIDE DEF p
    <3> QED BY <1>3, <3>1 DEF Whole, BufferWhole
  <2> HIDE DEF t, p
  <2>5. t = [addr |-> s.addr, buf |-> p, cap |-> s.cap, err |-> s.err, wire |-> s.wire]
    BY <1>0, <2>1
  <2>6. t \in Writers
    BY <1>0, <2>2, <2>5, WriterMade
  <2>7. t.addr = s.addr /\ t.buf = p /\ t.cap = s.cap /\ t.err = s.err /\ t.wire = s.wire
    BY <2>5
  <2>8. Whole(t)
    BY <2>3, <2>4, <2>7 DEF Whole, BufferWhole
  <2>9. Keeps(s, t, <<b>>)
    <3>1. Joined(s.wire) \o p = (Joined(s.wire) \o s.buf) \o <<b>>
      BY <1>0, <1>1, <2>2, Associative
    <3> QED BY <1>3, <2>7, <3>1 DEF Keeps
  <2> QED BY <2>6, <2>8, <2>9 DEF t
<1>4. CASE ~s.err /\ ~(b.size <= Available(s)) /\ fails
  <2>1. t = [s EXCEPT !.err = TRUE]
    BY <1>4 DEF Write
  <2>2. t \in Writers /\ Whole(t) /\ Keeps(s, t, <<b>>)
    BY <2>1, Failing
  <2> HIDE DEF t
  <2> QED BY <2>2 DEF t
<1>5. CASE ~s.err /\ ~(b.size <= Available(s)) /\ ~fails
  <2> DEFINE d == Datagram(s.addr, <<b>>)
             v == Append(s.wire, d)
  <2>1. s.buf = <<>> /\ b.addr = s.addr
    BY <1>5
  <2>2. t = [s EXCEPT !.wire = v]
    BY <1>5, <2>1 DEF Write
  <2>3. d \in Wires /\ d.pkts = <<b>> /\ d.to = s.addr
    BY <1>0, <1>1 DEF Wires, Datagram
  <2> HIDE DEF d
  <2>4. IsWhole(d, s.cap)
    <3>1. Len(<<b>>) = 1 /\ Range(<<b>>) = {b}
      BY DEF Range
    <3> QED BY <2>1, <2>3, <3>1 DEF IsWhole
  <2>5. v \in Seq(Wires) /\ WiresWhole(v, s.cap)
    BY <1>0, <2>3, <2>4, WiresAppend DEF Whole
  <2>6. Joined(v) = Joined(s.wire) \o <<b>>
    BY <1>0, <2>3, JoinedAppend
  <2> HIDE DEF t, v
  <2>7. t = [addr |-> s.addr, buf |-> s.buf, cap |-> s.cap, err |-> s.err, wire |-> v]
    BY <1>0, <2>2
  <2>8. t \in Writers
    BY <1>0, <2>5, <2>7, WriterMade
  <2>9. t.addr = s.addr /\ t.buf = s.buf /\ t.cap = s.cap /\ t.err = s.err /\ t.wire = v
    BY <2>7
  <2>10. Whole(t)
    BY <2>5, <2>9 DEF Whole, BufferWhole
  <2>11. Keeps(s, t, <<b>>)
    <3>1. Joined(s.wire) \o <<>> = Joined(s.wire)
      BY <1>1
    <3>2. (Joined(s.wire) \o <<b>>) \o <<>> = Joined(s.wire) \o <<b>>
      BY <1>1
    <3>3. Joined(t.wire) \o t.buf = (Joined(s.wire) \o s.buf) \o <<b>>
      BY <2>1, <2>6, <2>9, <3>1, <3>2
    <3> QED BY <1>5, <3>3 DEF Keeps
  <2> QED BY <2>8, <2>10, <2>11 DEF t
<1> QED BY <1>2, <1>3, <1>4, <1>5

\* A round of the inner loop takes its packet over.
LEMMA PutMeans ==
    ASSUME PacketServerAssumption, NEW s \in Writers, NEW b \in Packets,
           NEW fails \in BOOLEAN, NEW failsToo \in BOOLEAN, Whole(s)
    PROVE  LET t == Put(s, b, fails, failsToo)
           IN  t \in Writers /\ Whole(t) /\ Keeps(s, t, <<b>>)
<1> DEFINE t == Put(s, b, fails, failsToo)
<1>1. CASE s.addr # b.addr \/ Available(s) < b.size
  <2> DEFINE r == Flush(s, fails)
             u == [r EXCEPT !.addr = b.addr]
  <2>1. t = Write(u, b, failsToo)
    BY <1>1 DEF Put
  <2>2. /\ r \in Writers /\ r.addr = s.addr /\ Whole(r) /\ Keeps(s, r, <<>>)
        /\ ~r.err => r.buf = <<>>
    BY FlushMeans
  <2>3. u = [addr |-> b.addr, buf |-> r.buf, cap |-> r.cap, err |-> r.err, wire |-> r.wire]
    <3>0. u = [r EXCEPT !.addr = b.addr]
      OBVIOUS
    <3> HIDE DEF r, u
    <3>1. r = [addr |-> r.addr, buf |-> r.buf, cap |-> r.cap, err |-> r.err, wire |-> r.wire]
      BY <2>2, WriterFields
    <3> QED BY <3>0, <3>1
  <2> HIDE DEF r, u, t
  <2>4. u \in Writers
    <3>1. b.addr \in Addresses
      BY DEF Packets, Addresses
    <3>2. /\ r.buf \in Seq(Packets) /\ r.err \in BOOLEAN /\ r.wire \in Seq(Wires)
          /\ r.cap \in WriterSizes
      BY <2>2, WriterFields
    <3> QED BY <2>3, <3>1, <3>2, WriterMade
  <2>5. u.addr = b.addr /\ u.buf = r.buf /\ u.cap = r.cap /\ u.err = r.err /\ u.wire = r.wire
    BY <2>3
  <2>6. Whole(u)
    <3>1. r.cap \in WriterSizes
      BY <2>2, WriterFields
    <3>2. SizeOf(<<>>) <= r.cap /\ Range(<<>>) = {}
      BY <3>1, NothingFits
    <3> QED BY <2>2, <2>5, <3>2 DEF Whole, BufferWhole
  <2>7. t \in Writers /\ Whole(t) /\ Keeps(u, t, <<b>>)
    <3>1. u.err \/ (b.addr = u.addr /\ (u.buf = <<>> \/ b.size <= Available(u)))
      BY <2>2, <2>5
    <3> QED BY <2>1, <2>4, <2>6, <3>1, WriteMeans
  <2>8. Keeps(s, t, <<b>>)
    <3>1. SUFFICES ASSUME ~t.err
                   PROVE  /\ ~s.err
                          /\ Joined(t.wire) \o t.buf = (Joined(s.wire) \o s.buf) \o <<b>>
      BY DEF Keeps
    <3>2. /\ ~u.err /\ ~s.err
          /\ Joined(t.wire) \o t.buf = (Joined(u.wire) \o u.buf) \o <<b>>
          /\ Joined(r.wire) \o r.buf = (Joined(s.wire) \o s.buf) \o <<>>
      BY <2>2, <2>5, <2>7, <3>1 DEF Keeps
    <3>3. (Joined(s.wire) \o s.buf) \o <<>> = Joined(s.wire) \o s.buf
      <4>1. s.buf \in Seq(Packets) /\ s.wire \in Seq(Wires) /\ s.addr \in Addresses
        BY WriterFields
      <4>2. [to |-> s.addr, pkts |-> s.buf] \in Wires
        BY <4>1 DEF Wires
      <4>3. Joined(s.wire) \in Seq(Packets)
        BY <4>1, <4>2, JoinedAppend
      <4> QED BY <4>1, <4>3
    <3> QED BY <2>5, <3>2, <3>3
  <2> QED BY <2>7, <2>8 DEF t
<1>2. CASE ~(s.addr # b.addr \/ Available(s) < b.size)
  <2>1. t = Write(s, b, failsToo)
    BY <1>2 DEF Put
  <2>2. b.addr = s.addr /\ b.size <= Available(s)
    <3>1. s.buf \in Seq(Packets) /\ s.cap \in WriterSizes
      BY WriterFields
    <3>2. SizeOf(s.buf) \in Int /\ b.size \in Nat /\ s.cap \in Nat
      BY <3>1, SizeGrows, CapIs
    <3> QED BY <1>2, <3>2 DEF Available
  <2> QED BY <2>1, <2>2, WriteMeans
<1> QED BY <1>1, <1>2

-----------------------------------------------------------------------------
(* The writer, its queue and its hand.  The loop over q packets takes no more *)
(* than the queue holds, since nobody else takes from it.                      *)

Hands == [pkt : Packets, q : 0..QueueSize]
Hand(h) == IF h = None THEN <<>> ELSE <<h.pkt>>

HandOK ==
    /\ wpc \in {"count", "put"} => held \in Hands
    /\ wpc \notin {"count", "put"} => held = None
    /\ wpc = "put" => held.q <= Len(out)

QueueOK == out \in Seq(Packets) /\ Len(out) <= QueueSize /\ accepted \in Seq(Packets)

\* The packets between send() and the wire, in order.
Accounted(s, h, o, acc) ==
    ~s.err => ((Joined(s.wire) \o s.buf) \o Hand(h)) \o o = acc

WriterInv ==
    /\ QueueOK /\ HandOK
    /\ w \in Writers /\ Whole(w)
    /\ Accounted(w, held, out, accepted)

\* The packet that the writer has in hand, and how many more it is to take.
LEMMA HandIs ==
    ASSUME PacketServerAssumption
    PROVE  /\ Hand(None) = <<>>
           /\ \A h \in Hands : Hand(h) = <<h.pkt>> /\ h.pkt \in Packets /\ h.q \in 0..QueueSize
<1>1. \A h \in Hands : h # None
  BY DEF Hands, PacketServerAssumption
<1> QED BY <1>1 DEF Hand, Hands

\* What is on the wire and what is buffered are packets.
LEMMA JoinedTyped ==
    ASSUME NEW s \in Writers
    PROVE  Joined(s.wire) \in Seq(Packets) /\ s.buf \in Seq(Packets)
<1>1. s.addr \in Addresses /\ s.buf \in Seq(Packets) /\ s.wire \in Seq(Wires)
  BY WriterFields
<1>2. [to |-> s.addr, pkts |-> s.buf] \in Wires
  BY <1>1 DEF Wires
<1> QED BY <1>1, <1>2, JoinedAppend

\* A packet that enters the queue comes last.
LEMMA EnqueueKeeps ==
    ASSUME PacketServerAssumption, WriterInv, NEW b \in Packets, Enqueue(b),
           UNCHANGED <<w, wpc, held>>
    PROVE  WriterInv'
<1>1. out' = Append(out, b) /\ accepted' = Append(accepted, b) /\ Len(out) < QueueSize
  BY DEF Enqueue
<1>2. QueueOK' /\ Len(out') = Len(out) + 1 /\ Len(out) \in Nat
  BY <1>1 DEF WriterInv, QueueOK, PacketServerAssumption
<1>3. HandOK'
  <2>1. wpc = "put" => held.q \in Nat
    BY HandIs DEF WriterInv, HandOK
  <2> QED BY <1>2, <2>1 DEF WriterInv, HandOK
<1>4. Accounted(w', held', out', accepted')
  <2>1. SUFFICES ASSUME ~w.err
                 PROVE  ((Joined(w.wire) \o w.buf) \o Hand(held)) \o Append(out, b)
                          = Append(accepted, b)
    BY <1>1 DEF Accounted
  <2> DEFINE x == (Joined(w.wire) \o w.buf) \o Hand(held)
  <2>2. x \in Seq(Packets)
    <3>1. Joined(w.wire) \in Seq(Packets) /\ w.buf \in Seq(Packets)
      BY JoinedTyped DEF WriterInv
    <3>2. Hand(held) \in Seq(Packets)
      <4>1. held \in Hands \/ held = None
        BY DEF WriterInv, HandOK
      <4>2. CASE held = None
        <5>1. Hand(held) = <<>>
          BY <4>2, HandIs
        <5> QED BY <5>1
      <4>3. CASE held \in Hands
        <5>1. Hand(held) = <<held.pkt>> /\ held.pkt \in Packets
          BY <4>3, HandIs
        <5> QED BY <5>1
      <4> QED BY <4>1, <4>2, <4>3
    <3> QED BY <3>1, <3>2
  <2>3. x \o out = accepted
    BY <2>1 DEF WriterInv, Accounted
  <2> HIDE DEF x
  <2>4. x \o Append(out, b) = Append(x \o out, b)
    BY <2>2 DEF WriterInv, QueueOK
  <2> QED BY <2>3, <2>4 DEF x
<1> QED BY <1>2, <1>3, <1>4 DEF WriterInv, Accounted

\* The first packet of the queue in the writer's hand.
LEMMA HandTakes ==
    ASSUME PacketServerAssumption, NEW s \in Writers, NEW o \in Seq(Packets), o # <<>>,
           NEW acc, Accounted(s, None, o, acc), NEW q \in 0..QueueSize
    PROVE  /\ [pkt |-> Head(o), q |-> q] \in Hands
           /\ Accounted(s, [pkt |-> Head(o), q |-> q], Tail(o), acc)
<1> DEFINE h == [pkt |-> Head(o), q |-> q]
           x == Joined(s.wire) \o s.buf
<1>1. Head(o) \in Packets /\ Tail(o) \in Seq(Packets) /\ o = <<Head(o)>> \o Tail(o)
  BY HeadAndTail
<1>2. h \in Hands /\ h.pkt = Head(o)
  BY <1>1 DEF Hands
<1> HIDE DEF h
<1>3. Hand(h) = <<Head(o)>> /\ Hand(None) = <<>>
  BY <1>2, HandIs
<1>4. x \in Seq(Packets)
  <2>1. Joined(s.wire) \in Seq(Packets) /\ s.buf \in Seq(Packets)
    BY JoinedTyped
  <2> QED BY <2>1
<1>5. Accounted(s, h, Tail(o), acc)
  <2>1. SUFFICES ASSUME ~s.err PROVE (x \o Hand(h)) \o Tail(o) = acc
    BY DEF Accounted
  <2>2. (x \o Hand(None)) \o o = acc
    BY <2>1 DEF Accounted
  <2> HIDE DEF x
  <2>3. x \o o = acc
    BY <1>3, <1>4, <2>2
  <2>4. Moves(x, o)
    BY <1>4, HeadMoves, Zenon
  <2> QED BY <1>3, <2>3, <2>4 DEF Moves
<1> QED BY <1>2, <1>5 DEF h

\* WriterTakes and WriterStops when there is a packet.
LEMMA TakeKeeps ==
    ASSUME PacketServerAssumption, WriterInv, wpc = "select", out # <<>>,
           held' = [pkt |-> Head(out), q |-> 0], out' = Tail(out), wpc' = "count",
           UNCHANGED <<w, accepted>>
    PROVE  WriterInv'
<1>1. /\ out \in Seq(Packets) /\ Len(out) <= QueueSize /\ accepted \in Seq(Packets)
      /\ w \in Writers /\ held = None /\ Accounted(w, held, out, accepted)
  BY DEF WriterInv, QueueOK, HandOK
<1>2. 0 \in 0..QueueSize
  BY DEF PacketServerAssumption
<1> DEFINE h == [pkt |-> Head(out), q |-> 0]
<1>3. h \in Hands /\ Accounted(w, h, Tail(out), accepted)
  BY <1>1, <1>2, HandTakes
<1>4. held' = h
  OBVIOUS
<1> HIDE DEF h
<1>5. QueueOK'
  <2>1. Tail(out) \in Seq(Packets) /\ Len(Tail(out)) = Len(out) - 1 /\ Len(out) \in Nat
    BY <1>1, HeadAndTail
  <2> QED BY <1>1, <2>1 DEF QueueOK, PacketServerAssumption
<1>6. HandOK'
  BY <1>3, <1>4 DEF HandOK
<1>7. Accounted(w', held', out', accepted')
  BY <1>3, <1>4
<1> QED BY <1>1, <1>5, <1>6, <1>7 DEF WriterInv, Accounted

\* The writer's invariant across its steps: it counts the queue,
LEMMA CountsKeeps == PacketServerAssumption /\ WriterInv /\ WriterCounts => WriterInv'
<1> SUFFICES ASSUME PacketServerAssumption, WriterInv, WriterCounts PROVE WriterInv'
  OBVIOUS
<1>1. /\ wpc = "count" /\ wpc' = "put" /\ held' = [held EXCEPT !.q = Len(out)]
      /\ UNCHANGED <<w, out, accepted>>
  BY DEF WriterCounts, writer, queue
<1>2. /\ out \in Seq(Packets) /\ Len(out) <= QueueSize /\ accepted \in Seq(Packets)
      /\ w \in Writers /\ held \in Hands /\ Accounted(w, held, out, accepted)
  BY <1>1 DEF WriterInv, QueueOK, HandOK
<1>3. Len(out) \in 0..QueueSize
  BY <1>2 DEF PacketServerAssumption
<1>4. held' \in Hands /\ held'.pkt = held.pkt /\ held'.q = Len(out)
  BY <1>1, <1>2, <1>3 DEF Hands
<1>5. Hand(held') = Hand(held)
  BY <1>2, <1>4, HandIs
<1>6. HandOK'
  BY <1>1, <1>3, <1>4 DEF HandOK
<1>7. Accounted(w', held', out', accepted')
  BY <1>1, <1>2, <1>5 DEF Accounted
<1> QED BY <1>1, <1>6, <1>7 DEF WriterInv, QueueOK, Accounted

\* puts a packet into the buffer,
LEMMA PutsKeeps == PacketServerAssumption /\ WriterInv /\ WriterPuts => WriterInv'
<1> SUFFICES ASSUME PacketServerAssumption, WriterInv, WriterPuts PROVE WriterInv'
  OBVIOUS
<1>1. /\ wpc = "put" /\ UNCHANGED accepted
      /\ \E f \in Outcomes, g \in Outcomes : w' = Put(w, held.pkt, f, g)
  BY DEF WriterPuts
<1>2. /\ out \in Seq(Packets) /\ Len(out) <= QueueSize /\ accepted \in Seq(Packets)
      /\ w \in Writers /\ Whole(w) /\ held \in Hands /\ held.q <= Len(out)
      /\ Accounted(w, held, out, accepted)
  BY <1>1 DEF WriterInv, QueueOK, HandOK
<1>3. held.pkt \in Packets /\ held.q \in 0..QueueSize /\ Hand(held) = <<held.pkt>>
  BY <1>2, HandIs
<1>4. w' \in Writers /\ Whole(w') /\ Keeps(w, w', <<held.pkt>>)
  <2>1. PICK f \in Outcomes, g \in Outcomes : w' = Put(w, held.pkt, f, g)
    BY <1>1
  <2>2. f \in BOOLEAN /\ g \in BOOLEAN
    BY DEF Outcomes
  <2> QED BY <1>2, <1>3, <2>1, <2>2, PutMeans
<1>5. Accounted(w', None, out, accepted)
  <2>1. SUFFICES ASSUME ~w'.err
                 PROVE  ((Joined(w'.wire) \o w'.buf) \o Hand(None)) \o out = accepted
    BY DEF Accounted
  <2>2. /\ ~w.err
        /\ Joined(w'.wire) \o w'.buf = (Joined(w.wire) \o w.buf) \o <<held.pkt>>
    BY <1>4, <2>1 DEF Keeps
  <2>3. ((Joined(w.wire) \o w.buf) \o <<held.pkt>>) \o out = accepted
    BY <1>2, <1>3, <2>2 DEF Accounted
  <2>4. Joined(w'.wire) \o w'.buf \in Seq(Packets)
    <3>1. Joined(w'.wire) \in Seq(Packets) /\ w'.buf \in Seq(Packets)
      BY <1>4, JoinedTyped
    <3> QED BY <3>1
  <2>5. (Joined(w'.wire) \o w'.buf) \o <<>> = Joined(w'.wire) \o w'.buf
    BY <2>4
  <2> QED BY <2>2, <2>3, <2>5, HandIs
<1>6. CASE held.q = 0
  <2>1. held' = None /\ wpc' = "last" /\ out' = out
    BY <1>6 DEF WriterPuts
  <2>2. HandOK'
    BY <2>1 DEF HandOK
  <2> QED BY <1>1, <1>2, <1>4, <1>5, <2>1, <2>2 DEF WriterInv, QueueOK, Accounted
<1>7. CASE held.q # 0
  <2> DEFINE h == [pkt |-> Head(out), q |-> held.q - 1]
  <2>1. held' = h /\ wpc' = "put" /\ out' = Tail(out)
    BY <1>1, <1>7 DEF WriterPuts
  <2>2. out # <<>> /\ held.q - 1 \in 0..QueueSize /\ held.q - 1 <= Len(out) - 1
    BY <1>2, <1>3, <1>7 DEF PacketServerAssumption
  <2>3. h \in Hands /\ Accounted(w', h, Tail(out), accepted) /\ h.q = held.q - 1
    BY <1>2, <1>4, <1>5, <2>2, HandTakes
  <2> HIDE DEF h
  <2>4. Tail(out) \in Seq(Packets) /\ Len(Tail(out)) = Len(out) - 1 /\ Len(out) \in Nat
    BY <1>2, <2>2, HeadAndTail
  <2>5. QueueOK'
    BY <1>1, <1>2, <2>1, <2>4 DEF QueueOK, PacketServerAssumption
  <2>6. HandOK'
    BY <2>1, <2>2, <2>3, <2>4 DEF HandOK
  <2> QED BY <1>1, <1>4, <2>1, <2>3, <2>5, <2>6 DEF WriterInv, Accounted
<1> QED BY <1>6, <1>7

\* and flushes, or puts it off.
LEMMA FlushesKeeps == PacketServerAssumption /\ WriterInv /\ WriterFlushes => WriterInv'
<1> SUFFICES ASSUME PacketServerAssumption, WriterInv, WriterFlushes PROVE WriterInv'
  OBVIOUS
<1>1. /\ wpc = "last" /\ wpc' \in {"exit", "select"} /\ UNCHANGED <<held, out, accepted>>
      /\ w' = w \/ \E f \in Outcomes : w' = Flush(w, f)
  BY DEF WriterFlushes, queue
<1>2. /\ w \in Writers /\ Whole(w) /\ Accounted(w, held, out, accepted) /\ held = None
  BY <1>1 DEF WriterInv, HandOK
<1>3. HandOK'
  BY <1>1, <1>2 DEF HandOK
<1>4. CASE w' = w
  BY <1>1, <1>3, <1>4 DEF WriterInv, QueueOK, Accounted
<1>5. CASE \E f \in Outcomes : w' = Flush(w, f)
  <2>1. w' \in Writers /\ Whole(w') /\ Keeps(w, w', <<>>)
    <3>1. PICK f \in Outcomes : w' = Flush(w, f)
      BY <1>5
    <3>2. f \in BOOLEAN
      BY DEF Outcomes
    <3> QED BY <1>2, <3>1, <3>2, FlushMeans
  <2>2. Accounted(w', held', out', accepted')
    <3>1. SUFFICES ASSUME ~w'.err
                   PROVE  ((Joined(w'.wire) \o w'.buf) \o Hand(held)) \o out = accepted
      BY <1>1 DEF Accounted
    <3>2. ~w.err /\ Joined(w'.wire) \o w'.buf = (Joined(w.wire) \o w.buf) \o <<>>
      BY <2>1, <3>1 DEF Keeps
    <3>3. (Joined(w.wire) \o w.buf) \o <<>> = Joined(w.wire) \o w.buf
      <4>1. Joined(w.wire) \in Seq(Packets) /\ w.buf \in Seq(Packets)
        BY <1>2, JoinedTyped
      <4> QED BY <4>1
    <3> QED BY <1>2, <3>2, <3>3 DEF Accounted
  <2> QED BY <1>1, <1>3, <2>1, <2>2 DEF WriterInv, QueueOK, Accounted
<1> QED BY <1>1, <1>4, <1>5

-----------------------------------------------------------------------------
(* The senders *)

SendersOK ==
    /\ want \in [Senders -> Packets \cup {None}]
    /\ rpc = "packets" => from \in 1..MaxReads
    /\ reads \in Nat /\ sends \in Nat

ServerInv == SendersOK /\ WriterInv

\* What is not the writer's and does not send keeps the queue and the writer.
LEMMA WriterFrame ==
    ASSUME WriterInv, UNCHANGED <<out, accepted, w, wpc, held>>
    PROVE  WriterInv'
  BY DEF WriterInv, QueueOK, HandOK, Accounted

\* The senders' part holds on when no sender moves.
LEMMA SendersFrame ==
    ASSUME SendersOK, UNCHANGED <<want, rpc, from, reads, sends>>
    PROVE  SendersOK'
  BY DEF SendersOK

\* What a sender makes is a packet.
LEMMA NewPacket ==
    ASSUME NEW a \in 1..MaxReads, NEW s \in Sizes \cup {HeaderSize}, NEW n \in 1..MaxSends
    PROVE  [addr |-> a, size |-> s, n |-> n] \in Packets
  BY DEF Packets

\* send() up to its first select.
LEMMA SendKeeps ==
    ASSUME PacketServerAssumption, ServerInv,
           NEW p \in Senders, NEW a \in 1..MaxReads,
           NEW sizes \in SUBSET (Sizes \cup {HeaderSize}), Send(p, a, sizes),
           UNCHANGED <<w, wpc, held>>
    PROVE  WriterInv' /\ want' \in [Senders -> Packets \cup {None}] /\ sends' \in Nat
<1>1. sends < MaxSends /\ sends' = sends + 1 /\ sends \in Nat /\ MaxSends \in Nat
  BY DEF Send, ServerInv, SendersOK, PacketServerAssumption
<1>2. sends' \in 1..MaxSends
  BY <1>1
<1>3. PICK s \in sizes :
         LET pkt == [addr |-> a, size |-> s, n |-> sends']
         IN  \/ Enqueue(pkt) /\ UNCHANGED want
             \/ /\ want' = [want EXCEPT ![p] = pkt]
                /\ UNCHANGED <<out, accepted>>
  BY DEF Send
<1> DEFINE b == [addr |-> a, size |-> s, n |-> sends']
<1>4. b \in Packets
  BY <1>2, NewPacket
<1>5. \/ Enqueue(b) /\ UNCHANGED want
      \/ want' = [want EXCEPT ![p] = b] /\ UNCHANGED <<out, accepted>>
  BY <1>3
<1> HIDE DEF b
<1>6. WriterInv /\ want \in [Senders -> Packets \cup {None}]
  BY DEF ServerInv, SendersOK
<1>7. CASE Enqueue(b) /\ UNCHANGED want
  BY <1>1, <1>4, <1>6, <1>7, EnqueueKeeps
<1>8. CASE want' = [want EXCEPT ![p] = b] /\ UNCHANGED <<out, accepted>>
  BY <1>1, <1>4, <1>6, <1>8, WriterFrame
<1> QED BY <1>5, <1>7, <1>8

\* The invariant across the end of a send that blocked,
LEMMA BlockedKeeps ==
    ASSUME PacketServerAssumption, ServerInv, NEW p \in Senders, SendBlocked(p)
    PROVE  ServerInv'
<1>1. /\ want[p] # None /\ want' = [want EXCEPT ![p] = None]
      /\ UNCHANGED <<w, wpc, held, rpc, from, reads, sends>>
      /\ Enqueue(want[p]) \/ UNCHANGED <<out, accepted>>
  BY DEF SendBlocked, writer, reader
<1>2. WriterInv /\ SendersOK /\ want \in [Senders -> Packets \cup {None}]
  BY DEF ServerInv, SendersOK
<1>3. want[p] \in Packets
  BY <1>1, <1>2
<1>4. WriterInv'
  <2>1. CASE Enqueue(want[p])
    BY <1>1, <1>2, <1>3, <2>1, EnqueueKeeps
  <2>2. CASE UNCHANGED <<out, accepted>>
    BY <1>1, <1>2, <2>2, WriterFrame
  <2> QED BY <1>1, <2>1, <2>2
<1>5. SendersOK'
  BY <1>1, <1>2 DEF SendersOK
<1> QED BY <1>4, <1>5 DEF ServerInv

\* an answer from a handler,
LEMMA AnswerKeeps ==
    ASSUME PacketServerAssumption, ServerInv, NEW g \in Answerers, NEW a \in 1..MaxReads,
           Answer(g, a)
    PROVE  ServerInv'
<1>1. /\ Send(g, a, Sizes \cup {HeaderSize})
      /\ UNCHANGED <<w, wpc, held, rpc, from, reads>>
  BY DEF Answer, writer, reader
<1>2. g \in Senders
  BY DEF Senders
<1>3. WriterInv' /\ want' \in [Senders -> Packets \cup {None}] /\ sends' \in Nat
  BY <1>1, <1>2, SendKeeps
<1> QED BY <1>1, <1>3 DEF ServerInv, SendersOK

\* and a packet of the reader.
LEMMA ReadPacketKeeps ==
    ASSUME PacketServerAssumption, ServerInv, ReadPacket
    PROVE  ServerInv'
<1>1. /\ rpc = "packets" /\ UNCHANGED <<w, wpc, held, from, reads>>
      /\ \/ UNCHANGED queue
         \/ Send(Reader, from, IF Head(rest) = "other" THEN Sizes ELSE {HeaderSize})
      /\ rpc' = rpc \/ rpc' = "done"
  BY DEF ReadPacket, ReadEnd, writer
<1>2. from \in 1..MaxReads /\ reads \in Nat /\ WriterInv /\ SendersOK
  BY <1>1 DEF ServerInv, SendersOK
<1>3. CASE UNCHANGED queue
  <2>1. UNCHANGED <<out, want, accepted, sends>>
    BY <1>3 DEF queue
  <2>2. WriterInv'
    BY <1>1, <1>2, <2>1, WriterFrame
  <2> QED BY <1>1, <1>2, <2>1, <2>2 DEF ServerInv, SendersOK
<1>4. CASE Send(Reader, from, IF Head(rest) = "other" THEN Sizes ELSE {HeaderSize})
  <2> DEFINE sizes == IF Head(rest) = "other" THEN Sizes ELSE {HeaderSize}
  <2>1. sizes \in SUBSET (Sizes \cup {HeaderSize}) /\ Reader \in Senders
    BY DEF Senders
  <2>2. Send(Reader, from, sizes)
    BY <1>4
  <2> HIDE DEF sizes
  <2>3. WriterInv' /\ want' \in [Senders -> Packets \cup {None}] /\ sends' \in Nat
    BY <1>1, <1>2, <2>1, <2>2, SendKeeps
  <2> QED BY <1>1, <1>2, <2>3 DEF ServerInv, SendersOK
<1> QED BY <1>1, <1>3, <1>4

-----------------------------------------------------------------------------
(* The theorems *)

\* The invariant holds in the beginning,
LEMMA ServerInit == Init => ServerInv
<1> SUFFICES ASSUME Init PROVE ServerInv
  OBVIOUS
<1> USE PacketServerAssumption
<1>1. SendersOK
  BY DEF Init, SendersOK
<1>2. QueueOK /\ HandOK
  BY DEF Init, QueueOK, HandOK, PacketServerAssumption
<1>2a. PICK n \in WriterSizes :
           w = [addr |-> None, buf |-> <<>>, cap |-> n, err |-> FALSE, wire |-> <<>>]
  BY DEF Init
<1> DEFINE i == [addr |-> None, buf |-> <<>>, cap |-> n, err |-> FALSE, wire |-> <<>>]
<1>3. w = i
  BY <1>2a
<1>4. None \in Addresses /\ <<>> \in Seq(Packets) /\ FALSE \in BOOLEAN /\ <<>> \in Seq(Wires)
  BY DEF Addresses
<1>5. i \in Writers /\ i.buf = <<>> /\ i.wire = <<>> /\ i.cap = n
  BY <1>4, WriterMade
<1> HIDE DEF i
<1>6. Whole(w)
  <2>1. SizeOf(<<>>) <= n /\ Range(<<>>) = {} /\ DOMAIN <<>> = {}
    BY NothingFits
  <2> QED BY <1>3, <1>5, <2>1 DEF Whole, BufferWhole, WiresWhole
<1>7. Accounted(w, held, out, accepted)
  <2>1. Joined(<<>>) = <<>>
    <3>1. [k \in DOMAIN <<>> |-> <<>>[k].pkts] = <<>>
      OBVIOUS
    <3> QED BY <3>1, FlattenNone DEF Joined
  <2>2. held = None /\ out = <<>> /\ accepted = <<>>
    BY DEF Init
  <2>3. <<>> \o <<>> = <<>>
    OBVIOUS
  <2> QED BY <1>3, <1>5, <2>1, <2>2, <2>3, HandIs DEF Accounted
<1> QED BY <1>1, <1>2, <1>3, <1>5, <1>6, <1>7 DEF ServerInv, WriterInv

\* is kept by each step,
LEMMA ServerStep == ServerInv /\ [Next]_vars => ServerInv'
<1> SUFFICES ASSUME ServerInv, [Next]_vars PROVE ServerInv'
  OBVIOUS
<1> USE PacketServerAssumption
<1>0. WriterInv /\ SendersOK
  BY DEF ServerInv
<1>1. CASE WriterTakes
  <2>1. WriterInv'
    <3>1. /\ wpc = "select" /\ out # <<>> /\ held' = [pkt |-> Head(out), q |-> 0]
          /\ out' = Tail(out) /\ wpc' = "count" /\ UNCHANGED <<w, accepted>>
      BY <1>1 DEF WriterTakes
    <3> QED BY <1>0, <3>1, TakeKeeps
  <2>2. SendersOK'
    BY <1>0, <1>1, SendersFrame DEF WriterTakes, reader
  <2> QED BY <2>1, <2>2 DEF ServerInv
<1>2. CASE WriterStops
  <2>1. CASE out = <<>>
    <3>1. wpc' = "exit" /\ wpc = "select" /\ UNCHANGED <<held, out, w, accepted>>
      BY <1>2, <2>1 DEF WriterStops
    <3>2. WriterInv'
      BY <1>0, <3>1 DEF WriterInv, QueueOK, HandOK, Accounted
    <3>3. SendersOK'
      BY <1>0, <1>2, SendersFrame DEF WriterStops, reader
    <3> QED BY <3>2, <3>3 DEF ServerInv
  <2>2. CASE out # <<>>
    <3>1. /\ wpc = "select" /\ held' = [pkt |-> Head(out), q |-> 0]
          /\ out' = Tail(out) /\ wpc' = "count" /\ UNCHANGED <<w, accepted>>
      BY <1>2, <2>2 DEF WriterStops
    <3>2. WriterInv'
      BY <1>0, <2>2, <3>1, TakeKeeps
    <3>3. SendersOK'
      BY <1>0, <1>2, SendersFrame DEF WriterStops, reader
    <3> QED BY <3>2, <3>3 DEF ServerInv
  <2> QED BY <2>1, <2>2
<1>3. CASE Writing
  <2>1. CASE WriterCounts
    <3>1. SendersOK'
      BY <1>0, <2>1, SendersFrame DEF WriterCounts, reader, queue
    <3> QED BY <1>0, <2>1, <3>1, CountsKeeps DEF ServerInv
  <2>2. CASE WriterPuts
    <3>1. SendersOK'
      BY <1>0, <2>2, SendersFrame DEF WriterPuts, reader
    <3> QED BY <1>0, <2>2, <3>1, PutsKeeps DEF ServerInv
  <2>3. CASE WriterFlushes
    <3>1. SendersOK'
      BY <1>0, <2>3, SendersFrame DEF WriterFlushes, reader, queue
    <3> QED BY <1>0, <2>3, <3>1, FlushesKeeps DEF ServerInv
  <2>4. CASE WriterExits
    <3>1. wpc = "exit" /\ wpc' = "done" /\ UNCHANGED <<w, held, reader, queue>>
      BY <2>4 DEF WriterExits
    <3>2. WriterInv'
      BY <1>0, <3>1 DEF WriterInv, QueueOK, HandOK, Accounted, queue
    <3>3. SendersOK'
      BY <1>0, <3>1, SendersFrame DEF reader, queue
    <3> QED BY <3>2, <3>3 DEF ServerInv
  <2> QED BY <1>3, <2>1, <2>2, <2>3, <2>4 DEF Writing
<1>4. CASE ReadPacket
  BY <1>4, ReadPacketKeeps
<1>5. ASSUME UNCHANGED <<writer, queue>>,
             UNCHANGED <<from, reads>> /\ rpc' \in {rpc, "read", "done"}
      PROVE  ServerInv'
  <2>1. WriterInv'
    BY <1>0, <1>5, WriterFrame DEF writer, queue
  <2>2. SendersOK'
    BY <1>0, <1>5 DEF SendersOK, queue
  <2> QED BY <2>1, <2>2 DEF ServerInv
<1>6. CASE NextDatagram
  BY <1>5, <1>6 DEF NextDatagram
<1>7. CASE ReadFails
  BY <1>5, <1>7 DEF ReadFails, ReadEnd
<1>8. CASE CloseDone
  BY <1>5, <1>8 DEF CloseDone, reader
<1>9. CASE \E d \in Datagrams : ReadFrom(d)
  <2>1. /\ reads < MaxReads /\ reads' = reads + 1 /\ from' = reads'
        /\ UNCHANGED <<writer, queue>>
    BY <1>9 DEF ReadFrom
  <2>2. WriterInv'
    BY <1>0, <2>1, WriterFrame DEF writer, queue
  <2>3. SendersOK'
    BY <1>0, <2>1 DEF SendersOK, queue, PacketServerAssumption
  <2> QED BY <2>2, <2>3 DEF ServerInv
<1>10. CASE \E g \in Answerers, a \in 1..MaxReads : Answer(g, a)
  BY <1>10, AnswerKeeps
<1>11. CASE \E p \in Senders : SendBlocked(p)
  BY <1>11, BlockedKeeps
<1>12. CASE \E o \in Owners : Shutdown(o) \/ ShutdownTimesOut(o) \/ Close(o) \/ Owning(o)
  <2>1. UNCHANGED <<writer, reader, queue>>
    BY <1>12 DEF Shutdown, ShutdownTimesOut, Close, Owning, ShutdownStops, ShutdownCloses,
                 CloseReturns
  <2> QED BY <1>5, <2>1 DEF reader
<1>13. CASE UNCHANGED vars
  <2>1. UNCHANGED <<writer, reader, queue>>
    BY <1>13 DEF vars
  <2> QED BY <1>5, <2>1 DEF reader
<1> QED
  BY <1>1, <1>2, <1>3, <1>4, <1>6, <1>7, <1>8, <1>9, <1>10, <1>11, <1>12, <1>13
     DEF Next, Reading

\* and so holds always.
LEMMA ServerInvariant == Spec => []ServerInv
<1>1. Init => ServerInv
  BY ServerInit
<1>2. ServerInv /\ [Next]_vars => ServerInv'
  BY ServerStep
<1> QED BY <1>1, <1>2, PTL DEF Spec

\* Until a write fails, every packet that send() took is on the wire, buffered,
\* in the writer's hand or queued, in the order in which it was taken.
THEOREM AcceptedAccountedHolds == Spec => []AcceptedAccounted
<1>1. ServerInv => AcceptedAccounted
  <2> SUFFICES ASSUME ServerInv PROVE AcceptedAccounted
    OBVIOUS
  <2>1. Accounted(w, held, out, accepted)
    BY DEF ServerInv, WriterInv
  <2> QED BY <2>1, Zenon DEF Accounted, AcceptedAccounted, Joined, Hand
<1> QED BY <1>1, ServerInvariant, PTL

\* A datagram has whole packets of one address only, and more than one packet only if
\* they fit the writer's buffer, whatever size the pool's writer has.  (That they fit
\* the transmission unit is false: FitsMtu.)
THEOREM DatagramsWholeHolds == Spec => []DatagramsWhole
<1>1. ServerInv => DatagramsWhole
  BY Zenon DEF ServerInv, WriterInv, Whole, WiresWhole, IsWhole, DatagramsWhole
<1> QED BY <1>1, ServerInvariant, PTL

-----------------------------------------------------------------------------
(* p.stopper: Shutdown closes it at one place of its program, drop() only when  *)
(* nobody has stopped the server before.                                       *)

StopInv ==
    /\ wpc \in {"select", "count", "put", "last", "exit", "done"}
    /\ rpc \in {"read", "packets", "done"}
    /\ exit \in BOOLEAN /\ closed \in BOOLEAN /\ stopped \in BOOLEAN
    /\ connClosed \in BOOLEAN /\ writeDone \in BOOLEAN /\ readDone \in BOOLEAN
    /\ done \in BOOLEAN
    /\ opc \in [Owners -> {"idle", "stop", "writer", "close", "returned"}]
    /\ stopper \in 0..1 /\ (closed => stopped) /\ (~stopped => stopper = 0)
    /\ \A o \in Owners : opc[o] = "stop" =>
          stopped /\ stopper = 0 /\ \A x \in Owners : opc[x] = "stop" => x = o

\* Drop keeps that the stopper is closed at most once,
LEMMA DropStop ==
    ASSUME StopInv, Drop, UNCHANGED <<exit, writeDone, done>>,
           wpc' \in {wpc, "exit"}, rpc' \in {rpc, "done"}, readDone' \in {readDone, TRUE},
           \/ UNCHANGED opc
           \/ \E o \in Owners : opc' = [opc EXCEPT ![o] = "close"]
    PROVE  StopInv'
<1>1. /\ (stopped => stopper' = stopper) /\ stopper' \in 0..1
      /\ connClosed' \in BOOLEAN /\ stopped' = TRUE /\ closed' = TRUE
  <2>1. CASE closed
    <3>1. UNCHANGED <<closed, stopped, connClosed, stopper>>
      BY <2>1 DEF Drop, state
    <3>2. closed = TRUE /\ stopped = TRUE
      BY <2>1, Zenon DEF StopInv
    <3>3. stopper \in 0..1 /\ connClosed \in BOOLEAN
      BY DEF StopInv
    <3> QED BY <3>1, <3>2, <3>3
  <2>2. CASE ~closed
    <3>1. /\ closed' = TRUE /\ stopped' = TRUE /\ connClosed' = TRUE
          /\ stopper' = IF stopped THEN stopper ELSE stopper + 1
      BY <2>2 DEF Drop
    <3>2. stopper \in 0..1 /\ (~stopped => stopper = 0)
      BY DEF StopInv
    <3> QED BY <3>1, <3>2
  <2> QED BY <2>1, <2>2
<1>2. /\ opc' \in [Owners -> {"idle", "stop", "writer", "close", "returned"}]
      /\ \A o \in Owners : opc'[o] = "stop" => opc[o] = "stop"
  BY DEF StopInv
<1>3. \A o \in Owners : opc'[o] = "stop" =>
        stopped' /\ stopper' = 0 /\ \A x \in Owners : opc'[x] = "stop" => x = o
  BY <1>1, <1>2 DEF StopInv
<1>4. /\ wpc' \in {"select", "count", "put", "last", "exit", "done"}
      /\ rpc' \in {"read", "packets", "done"}
      /\ exit' \in BOOLEAN /\ writeDone' \in BOOLEAN /\ done' \in BOOLEAN
  BY DEF StopInv
<1>5. readDone' \in BOOLEAN
  BY DEF StopInv
<1> QED BY <1>1, <1>2, <1>3, <1>4, <1>5 DEF StopInv

\* and so does each step.
LEMMA StopStep == StopInv /\ [Next]_vars => StopInv'
<1> SUFFICES ASSUME StopInv, [Next]_vars PROVE StopInv'
  OBVIOUS
<1>0. ASSUME UNCHANGED <<state, opc>>,
             wpc' \in {"select", "count", "put", "last", "exit", "done"},
             rpc' \in {"read", "packets", "done"},
             exit' \in {exit, TRUE}, writeDone' \in {writeDone, TRUE},
             readDone' \in {readDone, TRUE}, done' \in {done, TRUE}
      PROVE  StopInv'
  <2>1. exit' \in BOOLEAN /\ writeDone' \in BOOLEAN
    BY <1>0 DEF StopInv
  <2>2. readDone' \in BOOLEAN /\ done' \in BOOLEAN
    BY <1>0 DEF StopInv
  <2> QED BY <1>0, <2>1, <2>2 DEF StopInv, state
<1>a. /\ wpc \in {"select", "count", "put", "last", "exit", "done"}
      /\ rpc \in {"read", "packets", "done"}
  BY DEF StopInv
<1>1. CASE WriterTakes \/ WriterStops
  BY <1>0, <1>1, <1>a DEF WriterTakes, WriterStops, reader
<1>2. CASE Writing
  <2>1. CASE WriterFlushes
    <3>1. CASE UNCHANGED state
      BY <1>0, <1>a, <2>1, <3>1 DEF WriterFlushes, reader, queue
    <3>2. CASE ~(UNCHANGED state)
      <4>1. Drop /\ wpc' = "exit" /\ UNCHANGED <<exit, writeDone, done, rpc, readDone, opc>>
        BY <2>1, <3>2 DEF WriterFlushes, reader
      <4> QED BY <4>1, DropStop
    <3> QED BY <3>1, <3>2
  <2>2. CASE WriterCounts \/ WriterPuts \/ WriterExits
    BY <1>0, <1>a, <2>2 DEF WriterCounts, WriterPuts, WriterExits, reader, queue
  <2> QED BY <1>2, <2>1, <2>2 DEF Writing
<1>3. CASE Reading
  BY <1>0, <1>3, <1>a DEF Reading, ReadPacket, NextDatagram, ReadEnd, writer
<1>4. CASE ReadFails
  <2>1. Drop /\ rpc' = "done" /\ readDone' = TRUE /\ UNCHANGED <<exit, writeDone, done, wpc, opc>>
    BY <1>4 DEF ReadFails, ReadEnd, writer
  <2> QED BY <2>1, DropStop
<1>5. CASE CloseDone
  BY <1>0, <1>5, <1>a DEF CloseDone, writer, reader
<1>6. CASE \E d \in Datagrams : ReadFrom(d)
  BY <1>0, <1>6, <1>a DEF ReadFrom, writer
<1>7. CASE \E g \in Answerers, a \in 1..MaxReads : Answer(g, a)
  BY <1>0, <1>7, <1>a DEF Answer, writer, reader
<1>8. CASE \E p \in Senders : SendBlocked(p)
  BY <1>0, <1>8, <1>a DEF SendBlocked, writer, reader
<1>9. ASSUME NEW o \in Owners, Shutdown(o) \/ ShutdownTimesOut(o) \/ Close(o) \/ Owning(o)
      PROVE  StopInv'
  <2>1. UNCHANGED <<wpc, rpc, exit, writeDone, readDone>>
    BY <1>9 DEF Shutdown, ShutdownTimesOut, Close, Owning, ShutdownStops, ShutdownCloses,
                CloseReturns, writer, reader
  <2>2. opc \in [Owners -> {"idle", "stop", "writer", "close", "returned"}]
    BY DEF StopInv
  <2>3. CASE Shutdown(o)
    <3>1. /\ stopped' = TRUE /\ UNCHANGED <<closed, connClosed, stopper, done>>
          /\ opc' = [opc EXCEPT ![o] = IF stopped THEN "returned" ELSE "stop"]
      BY <2>3 DEF Shutdown, Step
    <3>2. opc' \in [Owners -> {"idle", "stop", "writer", "close", "returned"}]
      BY <2>2, <3>1
    <3>3. ASSUME NEW x \in Owners, opc'[x] = "stop"
          PROVE  stopper = 0 /\ \A y \in Owners : opc'[y] = "stop" => y = x
      <4>1. CASE stopped
        <5>1. \A y \in Owners : opc'[y] = "stop" => opc[y] = "stop"
          BY <2>2, <3>1, <4>1
        <5> QED BY <3>3, <5>1 DEF StopInv
      <4>2. CASE ~stopped
        <5>1. \A y \in Owners : opc'[y] = "stop" => y = o
          BY <2>2, <3>1, <4>2 DEF StopInv
        <5> QED BY <3>3, <4>2, <5>1 DEF StopInv
      <4> QED BY <4>1, <4>2
    <3> QED BY <2>1, <3>1, <3>2, <3>3 DEF StopInv
  <2>4. CASE ShutdownStops(o)
    <3>1. /\ opc[o] = "stop" /\ stopper' = stopper + 1 /\ UNCHANGED <<closed, stopped, connClosed, done>>
          /\ opc' = [opc EXCEPT ![o] = "writer"]
      BY <2>4 DEF ShutdownStops, Step
    <3>2. opc' \in [Owners -> {"idle", "stop", "writer", "close", "returned"}]
      BY <2>2, <3>1
    <3>3. stopped /\ stopper' = 1
      BY <3>1 DEF StopInv
    <3>4. \A x \in Owners : opc'[x] # "stop"
      BY <2>2, <3>1 DEF StopInv
    <3> QED BY <2>1, <3>1, <3>2, <3>3, <3>4 DEF StopInv
  <2>5. CASE ShutdownCloses(o) \/ Close(o)
    <3>1. Drop /\ UNCHANGED done /\ opc' = [opc EXCEPT ![o] = "close"]
      BY <2>5 DEF ShutdownCloses, Close, Step
    <3> QED BY <2>1, <3>1, DropStop
  <2>6. CASE CloseReturns(o)
    <3>1. UNCHANGED <<state, done>> /\ opc' = [opc EXCEPT ![o] = "returned"]
      BY <2>6 DEF CloseReturns, Step
    <3>2. /\ opc' \in [Owners -> {"idle", "stop", "writer", "close", "returned"}]
          /\ \A x \in Owners : opc'[x] = "stop" => opc[x] = "stop"
      BY <2>2, <3>1
    <3> QED BY <2>1, <3>1, <3>2 DEF StopInv, state
  <2>7. CASE ShutdownTimesOut(o)
    <3>1. Drop /\ UNCHANGED <<opc, done>>
      BY <2>7 DEF ShutdownTimesOut
    <3> QED BY <2>1, <3>1, DropStop
  <2> QED BY <1>9, <2>3, <2>4, <2>5, <2>6, <2>7 DEF Owning
<1>10. CASE UNCHANGED vars
  BY <1>0, <1>10, <1>a DEF vars, writer, reader
<1> QED
  BY <1>1, <1>2, <1>3, <1>4, <1>5, <1>6, <1>7, <1>8, <1>9, <1>10 DEF Next

\* Every variable keeps its type; above all p.stopper, whose second close would
\* panic, is closed at most once whatever Shutdown, Close, the timer and the
\* failures of reader and writer do.
THEOREM TypeCorrect == Spec => []TypeOK
<1>1. Init => StopInv
  <2> SUFFICES ASSUME Init PROVE StopInv
    OBVIOUS
  <2>1. /\ wpc = "select" /\ rpc = "read" /\ opc = [o \in Owners |-> "idle"] /\ stopper = 0
        /\ exit = FALSE /\ closed = FALSE /\ stopped = FALSE /\ connClosed = FALSE
        /\ writeDone = FALSE /\ readDone = FALSE /\ done = FALSE
    BY DEF Init
  <2>2. \A o \in Owners : opc[o] # "stop"
    BY <2>1
  <2>3. /\ exit \in BOOLEAN /\ closed \in BOOLEAN /\ stopped \in BOOLEAN
        /\ connClosed \in BOOLEAN /\ writeDone \in BOOLEAN /\ readDone \in BOOLEAN
        /\ done \in BOOLEAN
    BY <2>1, Zenon
  <2>4. opc \in [Owners -> {"idle", "stop", "writer", "close", "returned"}] /\ stopper \in 0..1
    BY <2>1
  <2> QED BY <2>1, <2>2, <2>3, <2>4 DEF StopInv
<1>2. StopInv /\ [Next]_vars => StopInv'
  BY StopStep
<1>3. StopInv /\ ServerInv => TypeOK
  <2> SUFFICES ASSUME StopInv, ServerInv PROVE TypeOK
    OBVIOUS
  <2>1. Len(out) <= QueueSize
    BY DEF ServerInv, WriterInv, QueueOK
  <2>2. {exit, closed, stopped, connClosed, writeDone, readDone, done} \subseteq BOOLEAN
    BY DEF StopInv
  <2>3. w.cap \in WriterSizes
    BY WriterFields DEF ServerInv, WriterInv
  <2> QED BY <2>1, <2>2, <2>3 DEF TypeOK, StopInv
<1> QED BY <1>1, <1>2, <1>3, ServerInvariant, PTL DEF Spec

-----------------------------------------------------------------------------
(* Numbers *)

\* The radices are numbers to divide by.
LEMMA Radices ==
    /\ Radix \in Nat \ {0} /\ Byte \in Nat \ {0}
    /\ Octets \subseteq Nat /\ \A x \in 0..Radix - 1 : x \in Octets /\ x + Radix \in Octets
  BY WireAssumption DEF Byte, Octets

\* Division with a remainder.
LEMMA Divided ==
    ASSUME NEW v \in Nat, NEW b \in Nat \ {0}
    PROVE  /\ v \div b \in Nat /\ v % b \in 0..b - 1
           /\ v = (v \div b) * b + (v % b)
  OBVIOUS

\* A number below the divisor is its remainder, and its sum with the divisor's.
LEMMA Remainder ==
    ASSUME NEW b \in Nat \ {0}, NEW z \in 0..b - 1
    PROVE  z % b = z /\ (z + b) % b = z
<1>1. ASSUME NEW k \in Nat, NEW r \in 0..b - 1, NEW c \in Nat, z + c * b = k * b + r, c <= 1
      PROVE  r = z
  <2>1. CASE k = c
    BY <1>1, <2>1
  <2>2. CASE k < c
    <3>1. k = 0 /\ c = 1
      BY <1>1, <2>2
    <3> QED BY <1>1, <3>1
  <2>3. CASE k > c
    <3>1. k >= c + 1 /\ k * b >= (c + 1) * b /\ (c + 1) * b = c * b + b
      BY <1>1, <2>3
    <3> QED BY <1>1, <3>1
  <2> QED BY <1>1, <2>1, <2>2, <2>3
<1>2. z % b = z
  <2> DEFINE k == z \div b
             r == z % b
  <2>1. k \in Nat /\ r \in 0..b - 1 /\ z = k * b + r
    <3>1. z \in Nat
      OBVIOUS
    <3> QED BY <3>1, Divided, Zenon
  <2> HIDE DEF k, r
  <2>2. z + 0 * b = k * b + r
    BY <2>1
  <2>3. r = z
    BY <1>1, <2>1, <2>2
  <2> QED BY <2>3 DEF r
<1>3. (z + b) % b = z
  <2> DEFINE k == (z + b) \div b
             r == (z + b) % b
  <2>1. k \in Nat /\ r \in 0..b - 1 /\ z + b = k * b + r
    BY Divided
  <2> HIDE DEF k, r
  <2>2. z + 1 * b = k * b + r
    BY <2>1
  <2>3. r = z
    BY <1>1, <2>1, <2>2
  <2> QED BY <2>3 DEF r
<1> QED BY <1>2, <1>3

\* A power is the last of the powers up to it.
LEMMA PowerIs ==
    ASSUME NEW b \in Nat, NEW n \in Nat, NEW f,
           f[0] = 1, \A i \in 1..n : f[i] = b * f[i - 1]
    PROVE  Power(b, n) = f[n]
<1> DEFINE Eq(h) == h = [i \in 0..n |-> IF i = 0 THEN 1 ELSE b * h[i - 1]]
           p == CHOOSE h : Eq(h)
           u == [i \in 0..n |-> f[i]]
<1>1. Eq(u)
  <2>1. \A i \in 0..n : f[i] = IF i = 0 THEN 1 ELSE b * f[i - 1]
    OBVIOUS
  <2>2. \A i \in 0..n : i # 0 => u[i - 1] = f[i - 1]
    OBVIOUS
  <2> QED BY <2>1, <2>2
<1>2. Eq(p)
  <2> HIDE DEF u, Eq
  <2> QED BY <1>1, Zenon
<1> HIDE DEF p
<1>3. Agree(f, p, 0) /\ AgreeOn(f, p, 0, n)
  BY <1>2 DEF Agree, AgreeOn
<1>4. f[n] = p[n]
  <2> DEFINE m == 0
  <2>1. m \in Nat /\ n \in Nat /\ m <= n /\ Agree(f, p, m) /\ AgreeOn(f, p, m, n)
    BY <1>3
  <2> HIDE DEF m
  <2>2. Agree(f, p, n)
    BY <2>1, SameFrom, Zenon
  <2> QED BY <2>2 DEF Agree
<1> QED BY <1>4, Zenon DEF Power, p

\* The next power is the base times as large.
LEMMA PowerStep ==
    ASSUME NEW b \in Nat, NEW n \in Nat
    PROVE  Power(b, 0) = 1 /\ Power(b, n) \in Nat /\ Power(b, n + 1) = b * Power(b, n)
<1> DEFINE g == [i \in 1..n + 1 |-> [x \in Nat |-> b * x]]
<1>1. Steps(Nat, n + 1, g)
  BY DEF Steps
<1>2. PICK f : Solution(Nat, n + 1, 1, g, f)
  <2> DEFINE k == n + 1
             e == 1
  <2>1. k \in Nat /\ e \in Nat /\ Steps(Nat, k, g)
    BY <1>1
  <2> HIDE DEF k, e, g
  <2>2. \E f : Solution(Nat, k, e, g, f)
    BY <2>1, Recursion, Zenon
  <2> QED BY <2>2 DEF k, e
<1>3. f \in [0..n + 1 -> Nat] /\ f[0] = 1 /\ \A i \in 1..n + 1 : f[i] = b * f[i - 1]
  <2>1. \A i \in 1..n + 1 : f[i - 1] \in Nat
    BY <1>2 DEF Solution
  <2> QED BY <1>2, <2>1 DEF Solution
<1> HIDE DEF g
<1>4. Power(b, 0) = f[0] /\ Power(b, n) = f[n]
  <2> DEFINE o == 0
  <2>1. o \in Nat /\ (\A i \in 1..o : f[i] = b * f[i - 1]) /\ \A i \in 1..n : f[i] = b * f[i - 1]
    BY <1>3
  <2> HIDE DEF o
  <2>2. Power(b, o) = f[o]
    BY <1>3, <2>1, PowerIs, Zenon
  <2>3. Power(b, n) = f[n]
    BY <1>3, <2>1, PowerIs, Zenon
  <2> QED BY <2>2, <2>3 DEF o
<1>5. Power(b, n + 1) = f[n + 1]
  <2> DEFINE k == n + 1
  <2>1. k \in Nat /\ \A i \in 1..k : f[i] = b * f[i - 1]
    BY <1>3
  <2> HIDE DEF k
  <2>2. Power(b, k) = f[k]
    BY <1>3, <2>1, PowerIs
  <2> QED BY <2>2 DEF k
<1> QED BY <1>3, <1>4, <1>5

\* What an integer of one or four bytes, and of up to five groups, is below.
LEMMA Limits ==
    /\ Limit(1) = Byte
    /\ Limit(4) = Byte * (Byte * (Byte * Byte)) /\ Limit(4) \in Nat
    /\ \A n \in 0..10 : Power(Radix, n) \in Nat
    /\ \A n \in 0..9 : Power(Radix, n + 1) = Radix * Power(Radix, n)
    /\ Power(Radix, 0) = 1
    /\ Limit(4) <= Power(Radix, 5)
<1>1. Radix \in Nat /\ Byte \in Nat /\ Byte = 2 * Radix /\ Radix >= 16
  BY WireAssumption DEF Byte
<1>2. \A n \in Nat : /\ Power(Byte, 0) = 1 /\ Power(Byte, n) \in Nat
                     /\ Power(Byte, n + 1) = Byte * Power(Byte, n)
  BY <1>1, PowerStep
<1>3. \A n \in Nat : /\ Power(Radix, 0) = 1 /\ Power(Radix, n) \in Nat
                     /\ Power(Radix, n + 1) = Radix * Power(Radix, n)
  BY <1>1, PowerStep
<1>4. /\ Power(Byte, 1) = Byte * 1 /\ Power(Byte, 2) = Byte * Power(Byte, 1)
      /\ Power(Byte, 3) = Byte * Power(Byte, 2) /\ Power(Byte, 4) = Byte * Power(Byte, 3)
  <2>1. 0 + 1 = 1 /\ 1 + 1 = 2 /\ 2 + 1 = 3 /\ 3 + 1 = 4 /\ {0, 1, 2, 3} \subseteq Nat
    OBVIOUS
  <2> QED BY <1>2, <2>1
<1>5. /\ Power(Radix, 1) = Radix * 1 /\ Power(Radix, 2) = Radix * Power(Radix, 1)
      /\ Power(Radix, 3) = Radix * Power(Radix, 2) /\ Power(Radix, 4) = Radix * Power(Radix, 3)
      /\ Power(Radix, 5) = Radix * Power(Radix, 4)
  <2>1. /\ 0 + 1 = 1 /\ 1 + 1 = 2 /\ 2 + 1 = 3 /\ 3 + 1 = 4 /\ 4 + 1 = 5
        /\ {0, 1, 2, 3, 4} \subseteq Nat
    OBVIOUS
  <2> QED BY <1>3, <2>1
<1>6. ASSUME NEW r \in Nat, r >= 16
      PROVE  (2 * r) * ((2 * r) * ((2 * r) * (2 * r))) <= r * (r * (r * (r * r)))
  BY <1>6
<1>7. Limit(4) = Byte * (Byte * (Byte * Byte)) /\ Limit(1) = Byte /\ Limit(4) \in Nat
  BY <1>1, <1>2, <1>4 DEF Limit
<1>8. Power(Radix, 5) = Radix * (Radix * (Radix * (Radix * Radix)))
  BY <1>1, <1>5
<1>9. Limit(4) <= Power(Radix, 5)
  BY <1>1, <1>6, <1>7, <1>8
<1> QED BY <1>3, <1>7, <1>9

\* The quotients by the powers of a base are a function with these steps.
Divides(v, b, n, q) ==
    q \in [0..n -> Nat] /\ q[0] = v /\ \A i \in 1..n : q[i] = q[i - 1] \div b

\* Shifting divides by the base, once for each place.
LEMMA ShiftedIs ==
    ASSUME NEW v \in Nat, NEW b \in Nat \ {0}, NEW n \in Nat
    PROVE  Divides(v, b, n, Shifted(v, b, n))
<1> DEFINE g == [i \in 1..n |-> [x \in Nat |-> x \div b]]
           Eq(h) == h = [i \in 0..n |-> IF i = 0 THEN v ELSE h[i - 1] \div b]
           q == CHOOSE h : Eq(h)
<1>1. Steps(Nat, n, g)
  <2>1. \A x \in Nat : x \div b \in Nat
    BY Divided
  <2> QED BY <2>1 DEF Steps
<1>2. PICK f : Solution(Nat, n, v, g, f)
  <2> HIDE DEF g
  <2> QED BY <1>1, Recursion, Zenon
<1>3. f \in [0..n -> Nat] /\ f[0] = v /\ \A i \in 1..n : f[i] = f[i - 1] \div b
  <2>1. \A i \in 1..n : f[i - 1] \in Nat
    BY <1>2 DEF Solution
  <2> QED BY <1>2, <2>1 DEF Solution
<1> HIDE DEF g
<1>4. Eq(f)
  <2>1. \A i \in 0..n : f[i] = IF i = 0 THEN v ELSE f[i - 1] \div b
    BY <1>3
  <2> QED BY <1>3, <2>1
<1>5. Eq(q)
  <2> HIDE DEF Eq
  <2> QED BY <1>4, Zenon
<1>6. q = Shifted(v, b, n)
  BY Zenon DEF Shifted
<1> HIDE DEF q
<1>7. \A i \in 0..n : q[i] = f[i]
  <2>1. Agree(f, q, 0) /\ \A j \in 0..n : AgreeOn(f, q, 0, j)
    BY <1>3, <1>5 DEF Agree, AgreeOn
  <2> TAKE j \in 0..n
  <2> DEFINE m == 0
  <2>2. m \in Nat /\ j \in Nat /\ m <= j /\ Agree(f, q, m) /\ AgreeOn(f, q, m, j)
    BY <2>1
  <2> HIDE DEF m
  <2>3. Agree(f, q, j)
    BY <2>2, SameFrom, Zenon
  <2> QED BY <2>3 DEF Agree
<1>8. q = f
  BY <1>3, <1>5, <1>7
<1> QED BY <1>3, <1>6, <1>8 DEF Divides

\* A number below a power has nothing left after as many divisions.
LEMMA Vanishes ==
    ASSUME NEW v \in Nat, NEW b \in Nat \ {0}, NEW n \in Nat, NEW q, Divides(v, b, n, q),
           NEW m \in 0..n, v < Power(b, m)
    PROVE  q[m] = 0
<1> DEFINE Bad == {i \in 0..m : ~(q[i] < Power(b, m - i))}
<1>1. CASE Bad = {}
  <2>1. m \in 0..m /\ m - m = 0 /\ m \in 0..n
    OBVIOUS
  <2>2. q[m] < Power(b, m - m)
    BY <1>1, <2>1
  <2>3. Power(b, 0) = 1
    BY PowerStep
  <2>4. q[m] \in Nat
    BY <2>1 DEF Divides
  <2> QED BY <2>1, <2>2, <2>3, <2>4
<1>2. CASE Bad # {}
  <2>1. PICK x \in Bad : \A y \in Bad : x <= y
    <3>1. Bad \in SUBSET Nat
      OBVIOUS
    <3> HIDE DEF Bad
    <3> QED BY <1>2, <3>1, Least
  <2>2. x # 0
    <3>1. m - 0 = m /\ q[0] = v
      BY DEF Divides
    <3> QED BY <2>1, <3>1
  <2>3. x - 1 \in 0..m /\ x - 1 \notin Bad /\ x \in 1..n /\ x - 1 \in 0..n /\ m - x \in Nat
    BY <2>1, <2>2
  <2>4. q[x - 1] < Power(b, m - (x - 1))
    BY <2>3
  <2>5. (m - x) + 1 = m - (x - 1)
    BY <2>3
  <2> DEFINE k == m - x
  <2>6. Power(b, k) \in Nat /\ Power(b, k + 1) = b * Power(b, k)
    <3> k \in Nat
      BY <2>3
    <3> HIDE DEF k
    <3> QED BY PowerStep
  <2>7. ASSUME NEW a \in Nat, NEW c \in Nat, a < b * c PROVE a \div b < c
    BY <2>7
  <2>8. q[x] = q[x - 1] \div b /\ q[x - 1] \in Nat
    BY <2>3 DEF Divides
  <2>9. q[x] < Power(b, m - x)
    <3>1. q[x - 1] < b * Power(b, k)
      BY <2>4, <2>5, <2>6
    <3> HIDE DEF k
    <3>2. q[x - 1] \div b < Power(b, k)
      BY <2>6, <2>7, <2>8, <3>1
    <3> QED BY <2>8, <3>2 DEF k
  <2> QED BY <2>1, <2>9
<1> QED BY <1>1, <1>2

\* and from there on.
LEMMA StaysZero ==
    ASSUME NEW v \in Nat, NEW b \in Nat \ {0}, NEW n \in Nat, NEW q, Divides(v, b, n, q),
           NEW m \in 0..n, q[m] = 0, NEW k \in m..n
    PROVE  q[k] = 0
<1> DEFINE z == [i \in 0..n |-> 0]
<1>1. 0 \div b = 0
  OBVIOUS
<1>2. Agree(z, q, m) /\ AgreeOn(z, q, m, k)
  <2> SUFFICES ASSUME NEW i \in m + 1..k, q[i - 1] = 0 PROVE q[i] = 0
    BY DEF Agree, AgreeOn
  <2> QED BY <1>1 DEF Divides
<1>3. m \in Nat /\ k \in Nat /\ m <= k /\ k \in 0..n
  OBVIOUS
<1>4. Agree(z, q, k)
  <2> HIDE DEF z
  <2> QED BY <1>2, <1>3, SameFrom, Zenon
<1> QED BY <1>3, <1>4 DEF Agree

-----------------------------------------------------------------------------
(* Bytes inside bytes *)

\* The bytes x come in d behind the position p.
At(d, p, x) == p + Len(x) <= Len(d) /\ \A k \in 1..Len(x) : d[p + k] = x[k]

\* Byte strings join to a byte string, of both lengths, with the bytes of both.
LEMMA Join ==
    \A x, y \in Seq(Nat) :
        /\ x \o y \in Seq(Nat) /\ Len(x) \in Nat /\ Len(y) \in Nat /\ Len(x \o y) = Len(x) + Len(y)
        /\ \A k \in 1..Len(x) : (x \o y)[k] = x[k]
        /\ \A k \in 1..Len(y) : (x \o y)[Len(x) + k] = y[k]
<1> TAKE x, y \in Seq(Nat)
<1>1. x \o y \in Seq(Nat) /\ Len(x) \in Nat /\ Len(y) \in Nat /\ Len(x \o y) = Len(x) + Len(y)
  OBVIOUS
<1>2. \A k \in 1..Len(x) : (x \o y)[k] = x[k]
  OBVIOUS
<1>3. ASSUME NEW k \in 1..Len(y) PROVE (x \o y)[Len(x) + k] = y[k]
  OBVIOUS
<1> QED BY <1>1, <1>2, <1>3

\* Byte strings of one length and with the same bytes are the same.
LEMMA Same ==
    \A x, y \in Seq(Nat) : Len(x) = Len(y) /\ (\A k \in 1..Len(x) : x[k] = y[k]) => x = y
  OBVIOUS

\* It does not matter which of three strings join first.
LEMMA Regroup == \A x, y, z \in Seq(Nat) : (x \o y) \o z = x \o (y \o z)
  OBVIOUS

\* A byte string is what comes before a place and what comes behind it.
LEMMA Split ==
    ASSUME NEW d \in Seq(Nat), NEW k \in Nat, k <= Len(d)
    PROVE  /\ SubSeq(d, 1, k) \in Seq(Nat) /\ Len(SubSeq(d, 1, k)) = k
           /\ SubSeq(d, k + 1, Len(d)) \in Seq(Nat)
           /\ SubSeq(d, 1, k) \o SubSeq(d, k + 1, Len(d)) = d
<1> DEFINE a == SubSeq(d, 1, k)
           b == SubSeq(d, k + 1, Len(d))
<1>1. a \in Seq(Nat) /\ Len(a) = k
  OBVIOUS
<1>2. b \in Seq(Nat) /\ Len(b) = Len(d) - k
  OBVIOUS
<1>3. \A i \in 1..k : a[i] = d[i]
  OBVIOUS
<1>4. \A i \in 1..Len(d) - k : b[i] = d[k + i]
  OBVIOUS
<1> DEFINE e == a \o b
           m == Len(d) - k
<1> HIDE DEF a, b
<1>5. /\ e \in Seq(Nat) /\ Len(e) = Len(d) /\ Len(d) \in Nat /\ m \in Nat
      /\ \A i \in 1..k : e[i] = a[i]
      /\ \A i \in 1..m : e[k + i] = b[i]
  <2>1. /\ e \in Seq(Nat) /\ Len(e) = Len(a) + Len(b)
        /\ \A i \in 1..Len(a) : e[i] = a[i]
        /\ \A i \in 1..Len(b) : e[Len(a) + i] = b[i]
    BY <1>1, <1>2, Join, Zenon
  <2>2. Len(d) \in Nat /\ m \in Nat /\ k + m = Len(d)
    OBVIOUS
  <2>3. Len(b) = m
    BY <1>2
  <2> HIDE DEF e, m
  <2> QED BY <1>1, <2>1, <2>2, <2>3
<1>6. ASSUME NEW i \in 1..Len(d) PROVE e[i] = d[i]
  <2>1. CASE i <= k
    <3>1. i \in 1..k
      BY <2>1
    <3> HIDE DEF e
    <3> QED BY <1>3, <1>5, <3>1
  <2>2. CASE i > k
    <3> DEFINE j == i - k
    <3>1. j \in 1..m /\ k + j = i
      BY <1>5, <2>2
    <3> HIDE DEF j, e
    <3>2. e[k + j] = b[j] /\ b[j] = d[k + j]
      BY <1>4, <1>5, <3>1
    <3> QED BY <3>1, <3>2
  <2>3. i <= k \/ i > k
    OBVIOUS
  <2> HIDE DEF e
  <2> QED BY <2>1, <2>2, <2>3
<1> HIDE DEF e
<1>7. e = d
  BY <1>5, <1>6
<1> QED BY <1>1, <1>2, <1>7 DEF a, b, e

\* Two parts that follow one another.
LEMMA AtJoin ==
    ASSUME NEW d \in Seq(Nat), NEW p \in Nat, NEW x \in Seq(Nat), NEW y \in Seq(Nat)
    PROVE  At(d, p, x \o y) <=> At(d, p, x) /\ At(d, p + Len(x), y)
<1> DEFINE l == Len(x)
           m == Len(y)
<1>1. /\ l \in Nat /\ m \in Nat /\ Len(x \o y) = l + m
      /\ \A k \in 1..l : (x \o y)[k] = x[k]
      /\ \A k \in 1..m : (x \o y)[l + k] = y[k]
  <2>1. l \in Nat /\ m \in Nat /\ Len(x \o y) = l + m
    OBVIOUS
  <2>2. \A k \in 1..l : (x \o y)[k] = x[k]
    OBVIOUS
  <2>3. ASSUME NEW k \in 1..m PROVE (x \o y)[l + k] = y[k]
    OBVIOUS
  <2> QED BY <2>1, <2>2, <2>3, Zenon
<1>2. ASSUME At(d, p, x \o y) PROVE At(d, p, x) /\ At(d, p + l, y)
  <2>1. \A k \in 1..m : l + k \in 1..l + m /\ p + (l + k) = (p + l) + k
    BY <1>1
  <2>2. \A k \in 1..l : k \in 1..l + m
    BY <1>1
  <2> HIDE DEF l, m
  <2>3. p + (l + m) <= Len(d) /\ \A k \in 1..l + m : d[p + k] = (x \o y)[k]
    BY <1>1, <1>2 DEF At
  <2>4. p + l <= Len(d) /\ (p + l) + m <= Len(d)
    BY <1>1, <2>3
  <2> QED BY <1>1, <2>1, <2>2, <2>3, <2>4 DEF At, l, m
<1>3. ASSUME At(d, p, x), At(d, p + l, y) PROVE At(d, p, x \o y)
  <2>1. /\ p + l <= Len(d) /\ \A k \in 1..l : d[p + k] = x[k]
        /\ (p + l) + m <= Len(d) /\ \A k \in 1..m : d[(p + l) + k] = y[k]
    BY <1>3 DEF At
  <2> SUFFICES ASSUME NEW k \in 1..l + m PROVE d[p + k] = (x \o y)[k]
    BY <1>1, <2>1 DEF At
  <2>2. CASE k <= l
    BY <1>1, <2>1, <2>2
  <2>3. CASE k > l
    <3> DEFINE j == k - l
    <3>1. j \in 1..m /\ (p + l) + j = p + k /\ l + j = k
      BY <1>1, <2>3
    <3>2. d[(p + l) + j] = y[j] /\ (x \o y)[l + j] = y[j]
      <4> HIDE DEF l, m, j
      <4> QED BY <1>1, <2>1, <3>1
    <3> HIDE DEF l, m, j
    <3> QED BY <3>1, <3>2
  <2> QED BY <1>1, <2>2, <2>3
<1> QED BY <1>2, <1>3

\* A part of a part.
LEMMA AtPart ==
    ASSUME NEW d \in Seq(Nat), NEW p \in Nat, NEW x \in Seq(Nat), NEW r \in Nat,
           NEW y \in Seq(Nat), At(d, p, x), At(x, r, y)
    PROVE  At(d, p + r, y)
<1>1. /\ p + Len(x) <= Len(d) /\ \A k \in 1..Len(x) : d[p + k] = x[k]
      /\ r + Len(y) <= Len(x) /\ \A k \in 1..Len(y) : x[r + k] = y[k]
  BY DEF At
<1>2. \A k \in 1..Len(y) : r + k \in 1..Len(x) /\ p + (r + k) = (p + r) + k
  BY <1>1
<1>3. (p + r) + Len(y) <= Len(d)
  BY <1>1
<1> QED BY <1>1, <1>2, <1>3 DEF At

\* A whole is a part of itself, and a part behind other bytes.
LEMMA AtWhole ==
    ASSUME NEW x \in Seq(Nat), NEW y \in Seq(Nat)
    PROVE  At(x, 0, x) /\ At(x \o y, 0, x) /\ At(x \o y, Len(x), y)
  BY DEF At

\* What is cut out of its place is the part.
LEMMA AtCut ==
    ASSUME NEW d \in Seq(Nat), NEW p \in Nat, NEW x \in Seq(Nat), At(d, p, x)
    PROVE  SubSeq(d, p + 1, p + Len(x)) = x
  BY DEF At

-----------------------------------------------------------------------------
(* Integers *)

\* A reader finds v where the bytes x are.
Reads(take, x, v, d) == \A p \in 0..Len(d) : At(d, p, x) => take[p] = Took(v, p + Len(x))

\* The bytes of a little endian integer are the remainders of its quotients.
LEMMA LEIs ==
    ASSUME NEW v \in Nat, NEW n \in Nat
    PROVE  /\ LE(v, n) \in Seq(Nat) /\ Len(LE(v, n)) = n
           /\ \A i \in 1..n : LE(v, n)[i] = Shifted(v, Byte, n)[i - 1] % Byte
<1> DEFINE q == Shifted(v, Byte, n)
<1>1. Byte \in Nat \ {0}
  BY Radices
<1>2. Divides(v, Byte, n, q)
  BY <1>1, ShiftedIs
<1>3. LE(v, n) = [i \in 1..n |-> q[i - 1] % Byte]
  BY DEF LE
<1> HIDE DEF q
<1>4. \A i \in 1..n : q[i - 1] % Byte \in Nat
  <2>1. \A i \in 1..n : q[i - 1] \in Nat
    BY <1>2 DEF Divides
  <2> QED BY <1>1, <2>1, Divided
<1> QED BY <1>3, <1>4 DEF q

\* TakeLE finds the integer that LE has written.
LEMMA LEReads ==
    ASSUME NEW v \in Nat, NEW n \in Nat \ {0}, v < Limit(n),
           NEW d \in Seq(Nat), NEW p \in Nat, At(d, p, LE(v, n))
    PROVE  TakeLE(n, d, p) = Took(v, p + n)
<1> DEFINE q == Shifted(v, Byte, n)
           Eq(h) == h = [i \in 0..n |-> IF i = 0 THEN 0 ELSE h[i - 1] * Byte + d[p + n + 1 - i]]
           val == CHOOSE h : Eq(h)
           u == [i \in 0..n |-> q[n - i]]
<1>1. Byte \in Nat \ {0} /\ Divides(v, Byte, n, q)
  BY Radices, ShiftedIs
<1>2. q[n] = 0
  <2>1. n \in 0..n /\ v < Power(Byte, n)
    BY DEF Limit
  <2> HIDE DEF q
  <2> QED BY <1>1, <2>1, Vanishes
<1>3. p + n <= Len(d) /\ \A k \in 1..n : d[p + k] = q[k - 1] % Byte
  BY LEIs DEF At
<1> HIDE DEF q
<1>4. ASSUME NEW i \in 1..n PROVE u[i] = u[i - 1] * Byte + d[p + n + 1 - i]
  <2> DEFINE k == n + 1 - i
  <2>1. k \in 1..n /\ k - 1 = n - i /\ k = n - (i - 1) /\ p + n + 1 - i = p + k /\ k - 1 \in 0..n
    OBVIOUS
  <2>2. u[i] = q[k - 1] /\ u[i - 1] = q[k]
    BY <2>1
  <2>3. q[k - 1] \in Nat /\ q[k] = q[k - 1] \div Byte /\ d[p + k] = q[k - 1] % Byte
    BY <1>1, <1>3, <2>1 DEF Divides
  <2> DEFINE x == q[k - 1]
  <2>4. x = (x \div Byte) * Byte + (x % Byte)
    <3> HIDE DEF x
    <3>1. x \in Nat
      BY <2>3 DEF x
    <3> QED BY <1>1, <3>1, Divided
  <2>5. p + n + 1 - i = p + k
    BY <2>1
  <2> HIDE DEF u, k
  <2> QED BY <2>2, <2>3, <2>4, <2>5
<1>5. Eq(u)
  <2>1. u[0] = 0
    BY <1>2
  <2>2. \A i \in 0..n : u[i] = IF i = 0 THEN 0 ELSE u[i - 1] * Byte + d[p + n + 1 - i]
    <3> TAKE i \in 0..n
    <3>1. CASE i = 0
      BY <2>1, <3>1
    <3>2. CASE i # 0
      <4> i \in 1..n
        BY <3>2
      <4> HIDE DEF u
      <4> QED BY <1>4, <3>2
    <3> QED BY <3>1, <3>2
  <2>3. u = [i \in 0..n |-> u[i]]
    OBVIOUS
  <2> HIDE DEF u
  <2> QED BY <2>2, <2>3
<1>6. Eq(val)
  <2> HIDE DEF Eq
  <2> QED BY <1>5, Zenon
<1> HIDE DEF val
<1>7. val[n] = u[n]
  <2>1. Agree(u, val, 0) /\ AgreeOn(u, val, 0, n)
    <3>1. \A i \in 0..n : val[i] = IF i = 0 THEN 0 ELSE val[i - 1] * Byte + d[p + n + 1 - i]
      BY <1>6
    <3>2. \A i \in 0..n : u[i] = IF i = 0 THEN 0 ELSE u[i - 1] * Byte + d[p + n + 1 - i]
      <4> HIDE DEF u
      <4> QED BY <1>5
    <3> HIDE DEF u, Eq
    <3> QED BY <3>1, <3>2 DEF Agree, AgreeOn
  <2> DEFINE m == 0
  <2>2. m \in Nat /\ n \in Nat /\ m <= n /\ Agree(u, val, m) /\ AgreeOn(u, val, m, n)
    BY <2>1
  <2> HIDE DEF m, u
  <2>3. Agree(u, val, n)
    BY <2>2, SameFrom, Zenon
  <2> QED BY <2>3 DEF Agree
<1>8. u[n] = v
  <2>1. n - n = 0 /\ n \in 0..n
    OBVIOUS
  <2> QED BY <1>1, <2>1 DEF Divides
<1>9. TakeLE(n, d, p) = Took(val[n], p + n)
  <2>1. p + n <= Len(d) /\ p # Len(d)
    BY <1>3
  <2> HIDE DEF u
  <2> QED BY <2>1 DEF TakeLE, val
<1> QED BY <1>7, <1>8, <1>9

\* The n groups of a number: its remainders from the highest, the last one unmarked.
Grouped(v, n, x) ==
    LET q == Shifted(v, Radix, 10)
    IN  /\ x \in Seq(Nat) /\ Len(x) = n /\ q[n] = 0
        /\ \A i \in 1..n : x[i] = (q[n - i] % Radix) + IF i < n THEN Radix ELSE 0

\* BER has the fewest groups that hold the number, up to five.
LEMMA BERIs ==
    ASSUME NEW v \in Nat, v < Limit(4)
    PROVE  \E n \in 1..5 : /\ Grouped(v, n, BER(v))
                           /\ \A m \in 1..5 : v < Power(Radix, m) => n <= m
<1> DEFINE q == Shifted(v, Radix, 10)
           n == IF v = 0 THEN 1 ELSE CHOOSE k \in 1..10 : q[k - 1] > 0 /\ q[k] = 0
<1>1. Radix \in Nat \ {0} /\ Divides(v, Radix, 10, q)
  BY Radices, ShiftedIs
<1>2. q[0] = v /\ \A i \in 0..10 : q[i] \in Nat
  BY <1>1 DEF Divides
<1>3. ASSUME NEW m \in 1..5, v < Power(Radix, m) PROVE q[m] = 0
  <2>1. m \in 0..10 /\ 10 \in Nat
    OBVIOUS
  <2> HIDE DEF q
  <2> QED BY <1>1, <1>3, <2>1, Vanishes
<1>4. q[5] = 0
  <2>1. Limit(4) \in Nat /\ Power(Radix, 5) \in Nat /\ Limit(4) <= Power(Radix, 5)
    <3>1. 5 \in 0..10
      OBVIOUS
    <3> QED BY <3>1, Limits
  <2>2. v < Power(Radix, 5)
    BY <2>1
  <2> HIDE DEF q
  <2> QED BY <1>3, <2>2
<1> HIDE DEF q
<1>5. ASSUME NEW m \in 0..10, q[m] = 0, NEW k \in m..10 PROVE q[k] = 0
  <2>1. 10 \in Nat
    OBVIOUS
  <2> QED BY <1>1, <1>5, <2>1, StaysZero
<1>6. v # 0 => \E k \in 1..10 : q[k - 1] > 0 /\ q[k] = 0
  <2> SUFFICES ASSUME v # 0 PROVE \E k \in 1..10 : q[k - 1] > 0 /\ q[k] = 0
    OBVIOUS
  <2> DEFINE Zero == {k \in 0..5 : q[k] = 0}
  <2>1. PICK x \in Zero : \A y \in Zero : x <= y
    <3>1. Zero \in SUBSET Nat /\ Zero # {}
      BY <1>4
    <3> HIDE DEF Zero
    <3> QED BY <3>1, Least
  <2>2. x # 0
    BY <1>2, <2>1
  <2>3. x - 1 \notin Zero /\ x - 1 \in 0..5
    BY <2>1, <2>2
  <2> QED BY <1>2, <2>1, <2>2, <2>3
<1>7. n \in 1..10 /\ q[n] = 0 /\ \A m \in 0..10 : v # 0 /\ q[m] = 0 => n <= m
  <2>1. CASE v = 0
    <3>1. q[1] = 0
      <4>1. 0 \in 0..10 /\ 1 \in 0..10
        OBVIOUS
      <4> QED BY <1>2, <1>5, <2>1, <4>1
    <3> QED BY <2>1, <3>1
  <2>2. CASE v # 0
    <3>1. n \in 1..10 /\ q[n - 1] > 0 /\ q[n] = 0
      BY <1>6, <2>2
    <3> HIDE DEF n
    <3>2. ASSUME NEW m \in 0..10, q[m] = 0, ~(n <= m) PROVE FALSE
      <4>1. n - 1 \in m..10
        BY <3>1, <3>2
      <4>2. q[n - 1] = 0
        BY <1>5, <3>2, <4>1
      <4> QED BY <3>1, <4>2
    <3> QED BY <3>1, <3>2
  <2> QED BY <2>1, <2>2
<1>8. n \in 1..5 /\ \A m \in 1..5 : v < Power(Radix, m) => n <= m
  <2>1. CASE v = 0
    BY <2>1
  <2>2. CASE v # 0
    <3> HIDE DEF n
    <3> QED BY <1>3, <1>4, <1>7, <2>2
  <2> QED BY <2>1, <2>2
<1>9. BER(v) = [i \in 1..n |-> (q[n - i] % Radix) + IF i < n THEN Radix ELSE 0]
  BY Zenon DEF BER, q, n
<1> HIDE DEF n
<1>10. \A i \in 1..n : (q[n - i] % Radix) + (IF i < n THEN Radix ELSE 0) \in Nat
  <2>1. \A i \in 1..n : q[n - i] \in Nat
    BY <1>2, <1>8
  <2>2. \A y \in Nat : y % Radix \in 0..Radix - 1
    BY <1>1, Divided
  <2>3. \A i \in 1..n : q[n - i] % Radix \in Nat
    BY <1>1, <2>1, <2>2
  <2> QED BY <1>1, <2>3
<1>11. /\ BER(v) \in Seq(Nat) /\ Len(BER(v)) = n
       /\ \A i \in 1..n : BER(v)[i] = (q[n - i] % Radix) + IF i < n THEN Radix ELSE 0
  BY <1>8, <1>9, <1>10
<1>12. Grouped(v, n, BER(v))
  BY <1>7, <1>11, Zenon DEF Grouped, q
<1> QED BY <1>8, <1>12

\* The first n groups behind p are the number that they were made of.
LEMMA GroupsRead ==
    ASSUME NEW v \in Nat, NEW n \in 1..5, NEW x, Grouped(v, n, x),
           NEW d \in Seq(Nat), NEW p \in Nat, At(d, p, x)
    PROVE  Groups(d, p, n) = v
<1> DEFINE q == Shifted(v, Radix, 10)
           Eq(h) == h = [i \in 0..n |-> IF i = 0 THEN 0 ELSE h[i - 1] * Radix + (d[p + i] % Radix)]
           val == CHOOSE h : Eq(h)
           u == [i \in 0..n |-> q[n - i]]
<1>1. Radix \in Nat \ {0} /\ Divides(v, Radix, 10, q)
  BY Radices, ShiftedIs
<1>2. /\ q[n] = 0 /\ Len(x) = n
      /\ \A i \in 1..n : x[i] = (q[n - i] % Radix) + IF i < n THEN Radix ELSE 0
  BY Zenon DEF Grouped, q
<1>3. \A i \in 1..n : d[p + i] = x[i]
  BY <1>2 DEF At
<1> HIDE DEF q
<1>4. ASSUME NEW i \in 1..n PROVE u[i] = u[i - 1] * Radix + (d[p + i] % Radix)
  <2> DEFINE k == n - i
             y == q[k]
  <2>1. /\ k \in 0..10 /\ k + 1 \in 1..10 /\ (k + 1) - 1 = k /\ k + 1 = n - (i - 1)
        /\ i \in 0..n /\ i - 1 \in 0..n
    OBVIOUS
  <2>2. u[i] = q[k] /\ u[i - 1] = q[k + 1]
    <3>1. u[i - 1] = q[n - (i - 1)]
      BY <2>1
    <3> QED BY <2>1, <3>1
  <2>3. y \in Nat /\ q[k + 1] = y \div Radix
    <3> HIDE DEF k
    <3> QED BY <1>1, <2>1 DEF Divides
  <2>4. d[p + i] = (y % Radix) + IF i < n THEN Radix ELSE 0
    BY <1>2, <1>3
  <2> HIDE DEF y
  <2>5. y % Radix \in 0..Radix - 1 /\ y = (y \div Radix) * Radix + (y % Radix)
    BY <1>1, <2>3, Divided
  <2>6. ASSUME NEW z \in 0..Radix - 1 PROVE z % Radix = z /\ (z + Radix) % Radix = z
    BY <1>1, Remainder
  <2>7. d[p + i] % Radix = y % Radix
    <3> DEFINE z == y % Radix
    <3> HIDE DEF z
    <3>1. z \in 0..Radix - 1 /\ d[p + i] = z + IF i < n THEN Radix ELSE 0
      BY <2>4, <2>5 DEF z
    <3>2. d[p + i] % Radix = z
      <4>1. z + 0 = z
        BY <1>1, <3>1
      <4> QED BY <2>6, <3>1, <4>1
    <3> QED BY <3>2 DEF z
  <2> HIDE DEF u, k
  <2> QED BY <2>2, <2>3, <2>5, <2>7 DEF y
<1>5. Eq(u)
  <2>1. u[0] = 0
    BY <1>2
  <2>2. \A i \in 0..n : u[i] = IF i = 0 THEN 0 ELSE u[i - 1] * Radix + (d[p + i] % Radix)
    <3> TAKE i \in 0..n
    <3>1. CASE i = 0
      BY <2>1, <3>1
    <3>2. CASE i # 0
      <4> i \in 1..n
        BY <3>2
      <4> HIDE DEF u
      <4> QED BY <1>4, <3>2
    <3> QED BY <3>1, <3>2
  <2>3. u = [i \in 0..n |-> u[i]]
    OBVIOUS
  <2> HIDE DEF u
  <2> QED BY <2>2, <2>3
<1>6. Eq(val)
  <2> HIDE DEF Eq
  <2> QED BY <1>5, Zenon
<1> HIDE DEF val
<1>7. val[n] = u[n]
  <2>1. Agree(u, val, 0) /\ AgreeOn(u, val, 0, n)
    <3>1. \A i \in 0..n : val[i] = IF i = 0 THEN 0 ELSE val[i - 1] * Radix + (d[p + i] % Radix)
      BY <1>6
    <3>2. \A i \in 0..n : u[i] = IF i = 0 THEN 0 ELSE u[i - 1] * Radix + (d[p + i] % Radix)
      <4> HIDE DEF u
      <4> QED BY <1>5
    <3> HIDE DEF u, Eq
    <3> QED BY <3>1, <3>2 DEF Agree, AgreeOn
  <2> DEFINE m == 0
  <2>2. m \in Nat /\ n \in Nat /\ m <= n /\ Agree(u, val, m) /\ AgreeOn(u, val, m, n)
    BY <2>1
  <2> HIDE DEF m, u
  <2>3. Agree(u, val, n)
    BY <2>2, SameFrom, Zenon
  <2> QED BY <2>3 DEF Agree
<1>8. u[n] = v
  <2>1. n - n = 0 /\ n \in 0..n
    OBVIOUS
  <2> QED BY <1>1, <2>1 DEF Divides
<1>9. Groups(d, p, n) = val[n]
  <2> HIDE DEF u
  <2> QED BY Zenon DEF Groups, val
<1> QED BY <1>7, <1>8, <1>9

\* TakeBER finds the integer that BER has written.
LEMMA BERReads ==
    ASSUME NEW v \in Nat, v < Limit(4), NEW d \in Seq(Nat), NEW p \in Nat, At(d, p, BER(v))
    PROVE  TakeBER(4, d, p) = Took(v, p + Len(BER(v)))
<1> DEFINE x == BER(v)
           q == Shifted(v, Radix, 10)
           ends == {i \in 1..(8 * 4) \div 7 + 1 : p + i <= Len(d) /\ d[p + i] < Radix}
<1>1. PICK n \in 1..5 : Grouped(v, n, x)
  BY BERIs
<1>2. Groups(d, p, n) = v
  <2> HIDE DEF x
  <2>1. At(d, p, x)
    BY DEF x
  <2> QED BY <1>1, <2>1, GroupsRead
<1>3. Radix \in Nat \ {0} /\ Divides(v, Radix, 10, q)
  BY Radices, ShiftedIs
<1>4. Len(x) = n /\ \A i \in 1..n : x[i] = (q[n - i] % Radix) + IF i < n THEN Radix ELSE 0
  BY <1>1, Zenon DEF Grouped, q
<1> HIDE DEF x, q
<1>5. p + n <= Len(d) /\ \A i \in 1..n : d[p + i] = x[i]
  BY <1>4, Zenon DEF At, x
<1>6. \A i \in 1..n : q[n - i] % Radix \in 0..Radix - 1
  <2>1. \A i \in 1..n : q[n - i] \in Nat
    <3>1. \A i \in 1..n : n - i \in 0..10
      OBVIOUS
    <3> QED BY <1>3, <3>1 DEF Divides
  <2>2. \A y \in Nat : y % Radix \in 0..Radix - 1
    BY <1>3, Divided
  <2> QED BY <2>1, <2>2
<1>7. \A i \in 1..n : d[p + i] < Radix <=> i = n
  <2> TAKE i \in 1..n
  <2> DEFINE z == q[n - i] % Radix
  <2>1. z \in 0..Radix - 1 /\ d[p + i] = z + IF i < n THEN Radix ELSE 0
    BY <1>4, <1>5, <1>6
  <2> HIDE DEF z
  <2> QED BY <1>3, <2>1
<1>8. (8 * 4) \div 7 + 1 = 5
  OBVIOUS
<1>9. n \in ends /\ \A i \in ends : n <= i
  <2>1. n \in ends
    BY <1>5, <1>7, <1>8
  <2>2. ASSUME NEW i \in ends, ~(n <= i) PROVE FALSE
    <3>1. i \in 1..n /\ i # n /\ d[p + i] < Radix
      BY <1>8, <2>2
    <3> QED BY <1>7, <3>1
  <2> QED BY <2>1, <2>2
<1>10. ends \subseteq 1..5
  BY <1>8
<1>11. TakeBER(4, d, p) = IF ends = {} THEN Fail ELSE Took(Groups(d, p, Min(ends)) % Limit(4), p + Min(ends))
  BY Zenon DEF TakeBER
<1> HIDE DEF ends
<1>12. Min(ends) = n
  <2>1. \A z \in ends : (\A y \in ends : z <= y) => z = n
    BY <1>9, <1>10
  <2> QED BY <1>9, <2>1 DEF Min
<1>13. v % Limit(4) = v
  <2> DEFINE l == Limit(4)
  <2>1. l \in Nat \ {0} /\ v \in 0..l - 1
    <3>1. l \in Nat /\ v < l
      BY Limits
    <3> HIDE DEF l
    <3> QED BY <3>1
  <2> HIDE DEF l
  <2>2. v % l = v
    BY <2>1, Remainder
  <2> QED BY <2>2 DEF l
<1>14. TakeBER(4, d, p) = Took(v, p + n)
  BY <1>2, <1>9, <1>11, <1>12, <1>13
<1> QED BY <1>4, <1>14 DEF x

-----------------------------------------------------------------------------
(* Byte strings *)

\* TakeBytes finds the string that PackBytes has written.
LEMMA BytesRead ==
    ASSUME NEW v \in Seq(Nat), Len(v) < Limit(4), NEW d \in Seq(Nat), NEW p \in Nat,
           At(d, p, PackBytes(v, TRUE))
    PROVE  TakeBytes(TRUE, d, p) = Took(v, p + Len(PackBytes(v, TRUE)))
<1> DEFINE l == Len(v)
           x == BER(l)
           t == TakeUint(4, TRUE, d, p)
<1>1. l \in Nat /\ x \in Seq(Nat)
  <2>1. l \in Nat
    OBVIOUS
  <2> HIDE DEF l
  <2>2. l < Limit(4)
    BY DEF l
  <2> QED BY <2>1, <2>2, BERIs DEF Grouped
<1>2. PackBytes(v, TRUE) = x \o v
  BY DEF PackBytes, PackUint
<1> HIDE DEF x
<1>3. At(d, p, x) /\ At(d, p + Len(x), v) /\ Len(x \o v) = Len(x) + l
  <2>1. At(d, p, x \o v)
    BY <1>2
  <2>2. Len(x \o v) = Len(x) + l
    BY <1>1
  <2> HIDE DEF l
  <2> QED BY <1>1, <2>1, <2>2, AtJoin
<1>4. t = Took(l, p + Len(x))
  <2>1. t = TakeBER(4, d, p)
    BY DEF TakeUint
  <2> HIDE DEF l, t
  <2>2. l < Limit(4)
    BY DEF l
  <2> QED BY <1>1, <1>3, <2>1, <2>2, BERReads DEF x
<1>5. t.ok = TRUE /\ t.v = l /\ t.p = p + Len(x)
  <2> HIDE DEF t
  <2> QED BY <1>4 DEF Took
<1>6. (p + Len(x)) + l <= Len(d) /\ l <= Len(d)
  BY <1>1, <1>3 DEF At
<1>7. SubSeq(d, t.p + 1, t.p + t.v) = v
  <2> DEFINE a == p + Len(x)
  <2>1. a \in Nat
    BY <1>1
  <2>2. At(d, a, v)
    BY <1>3
  <2> HIDE DEF a
  <2>3. SubSeq(d, a + 1, a + Len(v)) = v
    BY <2>1, <2>2, AtCut
  <2> HIDE DEF t
  <2> QED BY <1>5, <2>3 DEF a
<1>8. TakeBytes(TRUE, d, p) =
        IF ~t.ok \/ t.v > Len(d) \/ t.p + t.v > Len(d) THEN Fail
        ELSE Took(SubSeq(d, t.p + 1, t.p + t.v), t.p + t.v)
  BY Zenon DEF TakeBytes
<1> HIDE DEF t
<1>9. t.v <= Len(d) /\ t.p + t.v <= Len(d) /\ t.p + t.v = p + Len(x \o v) /\ t.v \in Nat /\ t.p \in Nat
  BY <1>1, <1>3, <1>5, <1>6
<1>10. TakeBytes(TRUE, d, p) = Took(v, t.p + t.v)
  <2>1. Len(d) \in Nat
    OBVIOUS
  <2>2. ~(~t.ok \/ t.v > Len(d) \/ t.p + t.v > Len(d))
    BY <1>5, <1>9, <2>1
  <2> QED BY <1>7, <1>8, <2>2, Zenon
<1> QED BY <1>2, <1>9, <1>10

-----------------------------------------------------------------------------
(* One value after another *)

\* The indices of a recursion on an interval.
LEMMA Indices == \A n \in Nat : 0 \in 0..n /\ n \in 0..n /\ \A i \in 1..n : i \in 0..n /\ i - 1 \in 0..n
  OBVIOUS

\* Partial joins of a list of byte strings.
LEMMA FlatSumsHave ==
    ASSUME NEW ws \in Seq(Seq(Nat))
    PROVE  \E f : FlatSums(Nat, ws, f)
<1> DEFINE T == Seq(Nat)
           n == Len(ws)
           g == [i \in 1..n |-> [x \in T |-> x \o ws[i]]]
           e == <<>>
<1>1. n \in Nat /\ e \in T
  OBVIOUS
<1>2. Steps(T, n, g)
  <2>1. \A i \in 1..n : ws[i] \in Seq(Nat)
    OBVIOUS
  <2>2. \A i \in 1..n : \A x \in T : x \o ws[i] \in T
    BY <2>1
  <2> HIDE DEF T
  <2> QED BY <2>2 DEF Steps
<1>3. PICK f : Solution(T, n, e, g, f)
  <2> HIDE DEF T, n, g, e
  <2> QED BY <1>1, <1>2, Recursion, Zenon
<1>4. f \in [0..n -> T] /\ f[0] = e /\ \A i \in 1..n : f[i] = g[i][f[i - 1]]
  BY <1>3 DEF Solution
<1>5. \A i \in 1..n : f[i] = f[i - 1] \o ws[i]
  <2>1. \A i \in 1..n : f[i - 1] \in T
    <3> HIDE DEF n, T
    <3>1. \A i \in 1..n : i - 1 \in 0..n
      BY <1>1, Indices
    <3> QED BY <1>4, <3>1
  <2>2. \A i \in 1..n : \A x \in T : g[i][x] = x \o ws[i]
    OBVIOUS
  <2> HIDE DEF g
  <2> QED BY <1>4, <2>1, <2>2
<1> QED BY <1>4, <1>5 DEF FlatSums

\* Where each string of a list begins in their join.
Starts(ws, c) ==
    /\ c \in [0..Len(ws) -> Nat] /\ c[0] = 0 /\ c[Len(ws)] = Len(FlattenSeq(ws))
    /\ \A i \in 1..Len(ws) : c[i] = c[i - 1] + Len(ws[i])
    /\ \A i \in 1..Len(ws) : At(FlattenSeq(ws), c[i - 1], ws[i])

\* There is a place where each string of a list begins in what they join to.
LEMMA StartsHave ==
    ASSUME NEW ws \in Seq(Seq(Nat))
    PROVE  FlattenSeq(ws) \in Seq(Nat) /\ \E c : Starts(ws, c)
<1> DEFINE n == Len(ws)
<1>1. PICK f : FlatSums(Nat, ws, f)
  BY FlatSumsHave
<1>2. FlattenSeq(ws) = f[n]
  BY <1>1, FlattenIs, Zenon
<1>3. /\ n \in Nat /\ f \in [0..n -> Seq(Nat)] /\ f[0] = <<>>
      /\ \A i \in 1..n : f[i] = f[i - 1] \o ws[i]
  <2>1. n \in Nat
    OBVIOUS
  <2> QED BY <1>1, <2>1, Zenon DEF FlatSums
<1>4. \A i \in 1..n : /\ i \in 0..n /\ i - 1 \in 0..n /\ n \in 0..n
                     /\ ws[i] \in Seq(Nat) /\ f[i] \in Seq(Nat) /\ f[i - 1] \in Seq(Nat)
                     /\ f[n] \in Seq(Nat)
  <2>1. \A i \in 1..n : ws[i] \in Seq(Nat)
    OBVIOUS
  <2> DEFINE T == Seq(Nat)
  <2>2. \A i \in 0..n : f[i] \in T
    BY <1>3
  <2> HIDE DEF n, T
  <2>3. /\ n \in 0..n /\ \A i \in 1..n : i \in 0..n /\ i - 1 \in 0..n
    BY <1>3, Indices
  <2> QED BY <2>1, <2>2, <2>3 DEF T
<1> DEFINE c == [i \in 0..n |-> Len(f[i])]
           Bad == {k \in 0..n : ~At(f[n], 0, f[n - k])}
<1>5. Bad = {}
  <2> SUFFICES ASSUME Bad # {} PROVE FALSE
    OBVIOUS
  <2>1. PICK k \in Bad : \A y \in Bad : k <= y
    <3>1. Bad \in SUBSET Nat
      BY <1>3
    <3> HIDE DEF Bad
    <3> QED BY <3>1, Least
  <2>2. k # 0
    <3>1. n - 0 = n /\ f[n] \in Seq(Nat)
      <4>1. n - 0 = n /\ n \in 0..n
        BY <1>3
      <4> HIDE DEF n
      <4> QED BY <1>3, <4>1
    <3>2. At(f[n], 0, f[n])
      BY <3>1, AtWhole
    <3> QED BY <2>1, <3>1, <3>2
  <2> DEFINE i == n - (k - 1)
  <2>3. i \in 1..n /\ i - 1 = n - k /\ k - 1 \in 0..n /\ ~(k <= k - 1) /\ n \in 0..n
    BY <1>3, <2>1, <2>2
  <2>4. At(f[n], 0, f[i])
    BY <2>1, <2>3
  <2> HIDE DEF i, n
  <2>5. f[i] = f[i - 1] \o ws[i] /\ ws[i] \in Seq(Nat) /\ f[i - 1] \in Seq(Nat) /\ f[n] \in Seq(Nat)
    BY <1>3, <1>4, <2>3
  <2>6. At(f[n], 0, f[i - 1])
    <3>1. 0 \in Nat
      OBVIOUS
    <3> QED BY <2>4, <2>5, <3>1, AtJoin
  <2> QED BY <2>1, <2>3, <2>6
<1>6. \A i \in 1..n : At(f[n], 0, f[i])
  <2> TAKE i \in 1..n
  <2>1. n - i \in 0..n /\ n - (n - i) = i
    BY <1>3
  <2>2. n - i \notin Bad
    BY <1>5
  <2> HIDE DEF n
  <2> QED BY <2>1, <2>2
<1>7. ASSUME NEW i \in 1..n PROVE At(f[n], c[i - 1], ws[i]) /\ c[i] = c[i - 1] + Len(ws[i])
  <2>1. f[i] = f[i - 1] \o ws[i] /\ ws[i] \in Seq(Nat) /\ f[i - 1] \in Seq(Nat) /\ f[n] \in Seq(Nat)
    <3> HIDE DEF n
    <3> QED BY <1>3, <1>4
  <2>2. At(f[n], 0 + Len(f[i - 1]), ws[i])
    <3>1. 0 \in Nat
      OBVIOUS
    <3> HIDE DEF n
    <3>2. At(f[n], 0, f[i - 1] \o ws[i])
      BY <1>6, <2>1
    <3> QED BY <2>1, <3>1, <3>2, AtJoin
  <2>3. c[i] = Len(f[i]) /\ c[i - 1] = Len(f[i - 1]) /\ 0 + Len(f[i - 1]) = Len(f[i - 1])
    <3>1. i \in 0..n /\ i - 1 \in 0..n
      BY <1>4
    <3>2. 0 + Len(f[i - 1]) = Len(f[i - 1])
      BY <2>1
    <3> HIDE DEF n
    <3> QED BY <3>1, <3>2
  <2>4. Len(f[i - 1] \o ws[i]) = Len(f[i - 1]) + Len(ws[i])
    BY <2>1
  <2> HIDE DEF c, n
  <2> QED BY <2>1, <2>2, <2>3, <2>4
<1>8. c \in [0..n -> Nat] /\ c[0] = 0 /\ c[n] = Len(f[n])
  BY <1>3
<1>9. f[n] \in Seq(Nat)
  BY <1>3
<1> HIDE DEF c
<1>10. Starts(ws, c)
  BY <1>2, <1>7, <1>8 DEF Starts
<1> QED BY <1>2, <1>9, <1>10

\* A step of TakeEach.
OneMore(takes, i, s) ==
    IF ~s.ok THEN Fail
    ELSE LET r == takes[i][s.p]
         IN  IF r.ok THEN Took(Append(s.v, r.v), r.p) ELSE Fail

\* TakeEach is what its steps lead to.
LEMMA EachIs ==
    ASSUME NEW takes, NEW p, NEW f, Len(takes) \in Nat,
           f[0] = Took(<<>>, p), \A i \in 1..Len(takes) : f[i] = OneMore(takes, i, f[i - 1])
    PROVE  TakeEach(takes, p) = f[Len(takes)]
<1> DEFINE n == Len(takes)
           Eq(h) == h = [i \in 0..n |->
                            IF i = 0 THEN Took(<<>>, p)
                            ELSE IF ~h[i - 1].ok THEN Fail
                            ELSE LET r == takes[i][h[i - 1].p]
                                 IN  IF r.ok THEN Took(Append(h[i - 1].v, r.v), r.p) ELSE Fail]
           s == CHOOSE h : Eq(h)
           u == [i \in 0..n |-> f[i]]
<1>1. n \in Nat
  OBVIOUS
<1>2. TakeEach(takes, p) = s[n]
  BY Zenon DEF TakeEach, s, Eq, n
<1> HIDE DEF n
<1>3. \A h : Eq(h) <=> h = [i \in 0..n |-> IF i = 0 THEN Took(<<>>, p) ELSE OneMore(takes, i, h[i - 1])]
  BY Zenon DEF OneMore
<1> HIDE DEF Eq
<1>4. \A i \in 1..n : f[i] = OneMore(takes, i, f[i - 1])
  BY DEF n
<1>5. Eq(u)
  <2>1. \A i \in 0..n : u[i] = f[i]
    OBVIOUS
  <2>2. \A i \in 0..n : i # 0 => i - 1 \in 0..n
    BY <1>1
  <2>3. \A i \in 0..n : u[i] = IF i = 0 THEN Took(<<>>, p) ELSE OneMore(takes, i, u[i - 1])
    <3> TAKE i \in 0..n
    <3>1. CASE i = 0
      BY <2>1, <3>1
    <3>2. CASE i # 0
      <4>1. i \in 1..n /\ u[i - 1] = f[i - 1] /\ u[i] = f[i]
        BY <1>1, <2>1, <2>2, <3>2
      <4> HIDE DEF u
      <4> QED BY <1>4, <3>2, <4>1
    <3> QED BY <3>1, <3>2
  <2>4. u = [i \in 0..n |-> u[i]]
    OBVIOUS
  <2> HIDE DEF u
  <2>5. u = [i \in 0..n |-> IF i = 0 THEN Took(<<>>, p) ELSE OneMore(takes, i, u[i - 1])]
    BY <2>3, <2>4
  <2> QED BY <1>3, <2>5
<1>6. Eq(s)
  <2> HIDE DEF u
  <2> QED BY <1>5, Zenon
<1> HIDE DEF s
<1>7. \A i \in 0..n : s[i] = IF i = 0 THEN Took(<<>>, p) ELSE OneMore(takes, i, s[i - 1])
  <2>1. s = [i \in 0..n |-> IF i = 0 THEN Took(<<>>, p) ELSE OneMore(takes, i, s[i - 1])]
    BY <1>3, <1>6
  <2> QED BY <2>1
<1>8. s[n] = f[n]
  <2>1. Agree(f, s, 0) /\ AgreeOn(f, s, 0, n)
    <3>1. \A i \in 1..n : i \in 0..n /\ i # 0 /\ 0 \in 0..n
      BY <1>1
    <3>2. s[0] = f[0]
      <4>1. 0 \in 0..n
        BY <1>1
      <4> QED BY <1>7, <4>1
    <3>3. \A i \in 1..n : s[i] = OneMore(takes, i, s[i - 1])
      BY <1>7, <3>1
    <3>4. \A i \in 0 + 1..n : i \in 1..n
      OBVIOUS
    <3> QED BY <1>4, <3>2, <3>3, <3>4, Zenon DEF Agree, AgreeOn
  <2> DEFINE m == 0
  <2>2. m \in Nat /\ n \in Nat /\ m <= n /\ Agree(f, s, m) /\ AgreeOn(f, s, m, n)
    BY <1>1, <2>1
  <2> HIDE DEF m, u
  <2>3. Agree(f, s, n)
    BY <2>2, SameFrom, Zenon
  <2> QED BY <2>3 DEF Agree
<1> QED BY <1>2, <1>8 DEF n

\* TakeEach takes the values, unless one of its readers fails.
LEMMA EachTakes ==
    ASSUME NEW V, NEW vs \in Seq(V), NEW takes, Len(takes) = Len(vs),
           NEW c \in [0..Len(vs) -> Nat],
           \A i \in 1..Len(vs) : \/ takes[i][c[i - 1]] = Took(vs[i], c[i])
                                 \/ takes[i][c[i - 1]] = Fail
                                 \/ \E j \in 1..i - 1 : ~takes[j][c[j - 1]].ok
    PROVE  TakeEach(takes, c[0]) =
             IF \A i \in 1..Len(vs) : takes[i][c[i - 1]].ok THEN Took(vs, c[Len(vs)]) ELSE Fail
<1> DEFINE n == Len(vs)
           Good(i) == \A j \in 1..i : takes[j][c[j - 1]].ok
           f == [i \in 0..n |-> IF Good(i) THEN Took(SubSeq(vs, 1, i), c[i]) ELSE Fail]
<1>1. n \in Nat /\ Len(takes) = n
  OBVIOUS
<1>2. f[0] = Took(<<>>, c[0])
  <2>1. 0 \in 0..n /\ Good(0) /\ SubSeq(vs, 1, 0) = <<>>
    BY <1>1
  <2> HIDE DEF Good
  <2> QED BY <2>1
<1>3. ASSUME NEW i \in 1..n PROVE f[i] = OneMore(takes, i, f[i - 1])
  <2> DEFINE r == takes[i][c[i - 1]]
  <2>1. i \in 0..n /\ i - 1 \in 0..n
    BY <1>1
  <2>2. Good(i) <=> Good(i - 1) /\ r.ok
    <3>1. \A j \in 1..i : j = i \/ j \in 1..i - 1
      BY <1>1
    <3>2. \A j \in 1..i - 1 : j \in 1..i
      BY <1>1
    <3>3. i \in 1..i
      BY <1>1
    <3> QED BY <3>1, <3>2, <3>3
  <2>3. Append(SubSeq(vs, 1, i - 1), vs[i]) = SubSeq(vs, 1, i)
    BY <1>1
  <2>4. Good(i - 1) => r = Took(vs[i], c[i]) \/ r = Fail
    <3> HIDE DEF n
    <3> QED BY DEF n
  <2>5. f[i] = (IF Good(i) THEN Took(SubSeq(vs, 1, i), c[i]) ELSE Fail)
    BY <2>1
  <2>6. f[i - 1] = (IF Good(i - 1) THEN Took(SubSeq(vs, 1, i - 1), c[i - 1]) ELSE Fail)
    BY <2>1
  <2> HIDE DEF f, Good, n
  <2>7. CASE Good(i - 1)
    <3>1. f[i - 1] = Took(SubSeq(vs, 1, i - 1), c[i - 1])
      BY <2>6, <2>7
    <3>2. OneMore(takes, i, f[i - 1]) = IF r.ok THEN Took(Append(SubSeq(vs, 1, i - 1), r.v), r.p) ELSE Fail
      BY <3>1 DEF OneMore, Took
    <3> HIDE DEF r
    <3>3. CASE r = Took(vs[i], c[i])
      <4>1. r.ok = TRUE /\ r.v = vs[i] /\ r.p = c[i]
        BY <3>3 DEF Took
      <4> QED BY <2>2, <2>3, <2>5, <2>7, <3>2, <4>1
    <3>4. CASE r = Fail
      <4>1. r.ok = FALSE
        BY <3>4 DEF Fail
      <4> QED BY <2>2, <2>5, <2>7, <3>2, <4>1
    <3> QED BY <2>4, <2>7, <3>3, <3>4
  <2>8. CASE ~Good(i - 1)
    BY <2>2, <2>5, <2>6, <2>8 DEF OneMore, Fail
  <2> QED BY <2>7, <2>8
<1>4. TakeEach(takes, c[0]) = f[n]
  <2> DEFINE p == c[0]
  <2> HIDE DEF f, p
  <2>1. f[0] = Took(<<>>, p) /\ Len(takes) \in Nat /\ \A i \in 1..Len(takes) : f[i] = OneMore(takes, i, f[i - 1])
    BY <1>1, <1>2, <1>3 DEF p
  <2>2. TakeEach(takes, p) = f[Len(takes)]
    BY <2>1, EachIs, Zenon
  <2> QED BY <1>1, <2>2 DEF p
<1>5. n \in 0..n /\ SubSeq(vs, 1, n) = vs
  BY <1>1
<1>6. f[n] = IF Good(n) THEN Took(vs, c[n]) ELSE Fail
  <2> HIDE DEF Good
  <2> QED BY <1>5
<1> HIDE DEF f
<1> QED BY <1>4, <1>6

\* Readers that find each value at its place find all of them in the join.
LEMMA EachReads ==
    ASSUME NEW V, NEW vs \in Seq(V), NEW ws \in Seq(Seq(Nat)), NEW takes, NEW d \in Seq(Nat),
           Len(takes) = Len(vs), Len(ws) = Len(vs),
           \A i \in 1..Len(vs) : Reads(takes[i], ws[i], vs[i], d),
           NEW p \in Nat, At(d, p, FlattenSeq(ws))
    PROVE  TakeEach(takes, p) = Took(vs, p + Len(FlattenSeq(ws)))
<1> DEFINE n == Len(vs)
           x == FlattenSeq(ws)
<1>1. x \in Seq(Nat) /\ \E c : Starts(ws, c)
  BY StartsHave
<1>2. PICK c : Starts(ws, c)
  BY <1>1
<1> DEFINE b == [i \in 0..n |-> p + c[i]]
<1>3. /\ c \in [0..n -> Nat] /\ c[0] = 0 /\ c[n] = Len(x)
      /\ \A i \in 1..n : c[i] = c[i - 1] + Len(ws[i])
      /\ \A i \in 1..n : At(x, c[i - 1], ws[i])
  BY <1>2 DEF Starts
<1>4. n \in Nat /\ Len(takes) = n /\ Len(ws) = n /\ \A i \in 1..n : ws[i] \in Seq(Nat)
  OBVIOUS
<1> HIDE DEF x
<1>5. At(d, p, x)
  BY DEF x
<1>6. ASSUME NEW i \in 1..n PROVE takes[i][b[i - 1]] = Took(vs[i], b[i])
  <2>1. /\ i \in 0..n /\ i - 1 \in 0..n /\ ws[i] \in Seq(Nat) /\ c[i - 1] \in Nat /\ c[i] \in Nat
        /\ Len(ws[i]) \in Nat /\ Reads(takes[i], ws[i], vs[i], d)
    <3>1. i \in 0..n /\ i - 1 \in 0..n
      BY <1>4, Indices
    <3>2. c[i - 1] \in Nat /\ c[i] \in Nat
      <4> HIDE DEF n
      <4> QED BY <1>3, <3>1
    <3>3. ws[i] \in Seq(Nat) /\ Len(ws[i]) \in Nat
      BY <1>4
    <3>4. Reads(takes[i], ws[i], vs[i], d)
      OBVIOUS
    <3> QED BY <3>1, <3>2, <3>3, <3>4, Zenon
  <2>2. b[i - 1] = p + c[i - 1] /\ b[i] = (p + c[i - 1]) + Len(ws[i])
    BY <1>3, <2>1
  <2> DEFINE k == p + c[i - 1]
  <2>3. At(d, k, ws[i])
    <3>1. x \in Seq(Nat) /\ At(x, c[i - 1], ws[i])
      BY <1>1, <1>3 DEF x
    <3> HIDE DEF n
    <3> QED BY <1>5, <2>1, <3>1, AtPart
  <2>4. k \in 0..Len(d)
    <3>1. k + Len(ws[i]) <= Len(d) /\ Len(d) \in Nat
      BY <2>3 DEF At
    <3> QED BY <2>1, <3>1
  <2> HIDE DEF b, k
  <2>5. takes[i][k] = Took(vs[i], k + Len(ws[i]))
    BY <2>1, <2>3, <2>4 DEF Reads
  <2> QED BY <2>2, <2>5 DEF k
<1>7. b \in [0..n -> Nat] /\ b[0] = p /\ b[n] = p + Len(x)
  <2>1. 0 \in 0..n /\ n \in 0..n
    BY <1>4, Indices
  <2> HIDE DEF n
  <2>2. b \in [0..n -> Nat]
    BY <1>3
  <2>3. b[0] = p + 0 /\ b[n] = p + Len(x)
    BY <1>3, <2>1
  <2> QED BY <2>2, <2>3
<1> HIDE DEF b
<1>8. \A i \in 1..n : takes[i][b[i - 1]].ok
  <2> TAKE i \in 1..n
  <2> DEFINE a == takes[i][b[i - 1]]
  <2>1. a = Took(vs[i], b[i])
    BY <1>6
  <2> HIDE DEF a
  <2>2. a.ok = TRUE
    BY <2>1 DEF Took
  <2> QED BY <2>2 DEF a
<1>9. \A i \in 1..n : takes[i][b[i - 1]] = Took(vs[i], b[i]) \/ takes[i][b[i - 1]] = Fail
  BY <1>6
<1>10. TakeEach(takes, b[0]) =
         IF \A i \in 1..n : takes[i][b[i - 1]].ok THEN Took(vs, b[n]) ELSE Fail
  BY <1>4, <1>7, <1>9, EachTakes
<1> QED BY <1>7, <1>8, <1>10 DEF x

-----------------------------------------------------------------------------
(* Packets of a stream *)

\* A sequence at the beginning comes before all others.
LEMMA FlattenCons ==
    ASSUME NEW ws \in Seq(Seq(Nat)), NEW x \in Seq(Nat)
    PROVE  FlattenSeq(<<x>> \o ws) = x \o FlattenSeq(ws)
<1> DEFINE n == Len(ws)
           t == <<x>> \o ws
<1>1. PICK f : FlatSums(Nat, ws, f)
  BY FlatSumsHave
<1>2. FlattenSeq(ws) = f[n]
  BY <1>1, FlattenIs, Zenon
<1>3. /\ n \in Nat /\ f \in [0..n -> Seq(Nat)] /\ f[0] = <<>>
      /\ \A i \in 1..n : f[i] = f[i - 1] \o ws[i]
  <2>1. n \in Nat
    OBVIOUS
  <2> QED BY <1>1, <2>1, Zenon DEF FlatSums
<1>4. t \in Seq(Seq(Nat)) /\ Len(t) = n + 1 /\ t[1] = x /\ \A i \in 2..n + 1 : t[i] = ws[i - 1]
  OBVIOUS
<1>5. \A i \in 1..n : ws[i] \in Seq(Nat)
  OBVIOUS
<1> DEFINE h == [i \in 0..n + 1 |-> IF i = 0 THEN <<>> ELSE x \o f[i - 1]]
<1> HIDE DEF n, t
<1>6. \A i \in 0..n : f[i] \in Seq(Nat)
  <2> DEFINE T == Seq(Nat)
  <2>1. f \in [0..n -> T]
    BY <1>3
  <2> HIDE DEF T
  <2>2. \A i \in 0..n : f[i] \in T
    BY <2>1
  <2> QED BY <2>2 DEF T
<1>7. \A i \in 0..n + 1 : h[i] \in Seq(Nat)
  <2> TAKE i \in 0..n + 1
  <2>1. CASE i = 0
    BY <2>1
  <2>2. CASE i # 0
    <3>1. i - 1 \in 0..n
      BY <1>3, <2>2
    <3>2. f[i - 1] \in Seq(Nat)
      BY <1>6, <3>1
    <3> QED BY <2>2, <3>2
  <2> QED BY <2>1, <2>2
<1>8. ASSUME NEW i \in 1..n + 1 PROVE h[i] = h[i - 1] \o t[i]
  <2>1. i \in 0..n + 1 /\ i - 1 \in 0..n + 1 /\ i # 0
    BY <1>3
  <2>2. CASE i = 1
    <3>1. h[i] = x \o f[0] /\ h[i - 1] = <<>> /\ t[i] = x
      BY <1>4, <2>1, <2>2
    <3> HIDE DEF h
    <3> QED BY <1>3, <3>1
  <2>3. CASE i # 1
    <3> DEFINE j == i - 1
    <3>1. j \in 1..n /\ j \in 0..n /\ j - 1 \in 0..n /\ i \in 2..n + 1 /\ i - 1 # 0
      BY <1>3, <2>3
    <3>2. h[i] = x \o f[j] /\ h[i - 1] = x \o f[j - 1] /\ t[i] = ws[j]
      BY <1>4, <2>1, <3>1
    <3> HIDE DEF h, j
    <3>3. f[j] = f[j - 1] \o ws[j] /\ f[j - 1] \in Seq(Nat) /\ ws[j] \in Seq(Nat)
      BY <1>3, <1>5, <1>6, <3>1
    <3>4. x \o (f[j - 1] \o ws[j]) = (x \o f[j - 1]) \o ws[j]
      BY <3>3, Regroup
    <3> QED BY <3>2, <3>3, <3>4
  <2> QED BY <2>2, <2>3
<1>9. h[0] = <<>> /\ h[n + 1] = x \o f[n]
  <2>1. 0 \in 0..n + 1 /\ n + 1 \in 0..n + 1 /\ n + 1 # 0 /\ (n + 1) - 1 = n
    BY <1>3
  <2> QED BY <2>1
<1>10. h \in [0..n + 1 -> Seq(Nat)]
  BY <1>7
<1>11. FlatSums(Nat, t, h)
  <2> HIDE DEF h
  <2> QED BY <1>4, <1>8, <1>9, <1>10 DEF FlatSums
<1>12. FlattenSeq(t) = h[Len(t)]
  <2> HIDE DEF h
  <2> QED BY <1>4, <1>11, FlattenIs
<1> QED BY <1>2, <1>4, <1>9, <1>12 DEF n, t

\* What follows beginnings of one length is the same.
Joins(x, a, y, b) == x \o a = y \o b
Long(x, y) == Len(x) = Len(y)

\* Cut off beginnings of one length, and what follows them is equal.
LEMMA Cancel ==
    ASSUME NEW x \in Seq(Nat), NEW y \in Seq(Nat), NEW a \in Seq(Nat), NEW b \in Seq(Nat),
           Joins(x, a, y, b), Long(x, y)
    PROVE  a = b
<1> USE DEF Joins, Long
<1>1. /\ Len(x \o a) = Len(x) + Len(a) /\ Len(y \o b) = Len(y) + Len(b)
      /\ Len(x) \in Nat /\ Len(a) \in Nat /\ Len(b) \in Nat
      /\ \A k \in 1..Len(a) : (x \o a)[Len(x) + k] = a[k]
      /\ \A k \in 1..Len(b) : (y \o b)[Len(y) + k] = b[k]
  BY Join
<1>2. Len(a) = Len(b)
  <2> DEFINE e == Len(x \o a)
  <2>1. e = Len(x) + Len(a) /\ e = Len(x) + Len(b)
    BY <1>1
  <2> HIDE DEF e
  <2> QED BY <1>1, <2>1
<1>3. ASSUME NEW k \in 1..Len(a) PROVE a[k] = b[k]
  <2> DEFINE e == x \o a
             m == Len(x) + k
  <2>1. e[m] = a[k] /\ k \in 1..Len(b)
    BY <1>1, <1>2, Zenon
  <2>2. e[m] = b[k]
    BY <1>1, <2>1, Zenon
  <2> HIDE DEF e, m
  <2> QED BY <2>1, <2>2
<1> QED BY <1>2, <1>3, Same, Zenon

\* What has come is there as far as it has come.
LEMMA AtPrefix ==
    ASSUME NEW d \in Seq(Nat), NEW z \in Seq(Nat), NEW p \in Nat, NEW x \in Seq(Nat),
           At(d \o z, p, x), p + Len(x) <= Len(d)
    PROVE  At(d, p, x)
<1>1. \A k \in 1..Len(x) : p + k \in 1..Len(d)
  OBVIOUS
<1>2. \A k \in 1..Len(d) : (d \o z)[k] = d[k]
  OBVIOUS
<1>3. \A k \in 1..Len(x) : (d \o z)[p + k] = x[k]
  BY DEF At
<1> QED BY <1>1, <1>2, <1>3 DEF At

\* A packet is its header of three integers and its body.
LEMMA PacketIs ==
    ASSUME NEW msg \in Nat, NEW sync \in Nat, NEW body \in Seq(Nat), msg < Limit(4),
           sync < Limit(4), Len(body) < Limit(4), NEW d \in Seq(Nat), At(d, 0, Packet(msg, sync, body))
    PROVE  /\ Packet(msg, sync, body) \in Seq(Nat)
           /\ Len(Packet(msg, sync, body)) = 12 + Len(body)
           /\ At(d, 0, LE(msg, 4)) /\ At(d, 4, LE(Len(body), 4)) /\ At(d, 8, LE(sync, 4))
           /\ At(d, 12, body)
<1> DEFINE x == LE(msg, 4)
           l == Len(body)
           y == LE(l, 4)
           z == LE(sync, 4)
<1>1. /\ x \in Seq(Nat) /\ y \in Seq(Nat) /\ z \in Seq(Nat) /\ l \in Nat
      /\ Len(x) = 4 /\ Len(y) = 4 /\ Len(z) = 4
  <2>1. l \in Nat
    OBVIOUS
  <2> HIDE DEF l
  <2>2. 4 \in Nat
    OBVIOUS
  <2> QED BY <2>1, <2>2, LEIs
<1>2. Packet(msg, sync, body) = x \o y \o z \o body
  BY DEF Packet
<1> HIDE DEF x, y, z
<1>3. /\ x \o y \in Seq(Nat) /\ Len(x \o y) = 8
      /\ x \o y \o z \in Seq(Nat) /\ Len(x \o y \o z) = 12
      /\ x \o y \o z \o body \in Seq(Nat) /\ Len(x \o y \o z \o body) = 12 + Len(body)
  <2>1. x \o y \in Seq(Nat) /\ Len(x \o y) = 8
    <3> DEFINE a == x \o y
    <3>1. a \in Seq(Nat) /\ Len(a) = Len(x) + Len(y)
      BY <1>1, Join, Zenon
    <3> HIDE DEF a
    <3>2. a \in Seq(Nat) /\ Len(a) = 8
      BY <1>1, <3>1
    <3> QED BY <3>2 DEF a
  <2> DEFINE a == x \o y
  <2> HIDE DEF a
  <2>2. a \o z \in Seq(Nat) /\ Len(a \o z) = 12
    BY <1>1, <2>1, Join DEF a
  <2> DEFINE b == a \o z
  <2> HIDE DEF b
  <2>3. b \o body \in Seq(Nat) /\ Len(b \o body) = 12 + Len(body)
    BY <2>2, Join DEF b
  <2> QED BY <2>1, <2>2, <2>3 DEF a, b
<1>4. At(d, 0, x \o y \o z) /\ At(d, 0 + 12, body)
  <2>1. 0 \in Nat /\ At(d, 0, x \o y \o z \o body)
    BY <1>2
  <2> QED BY <1>3, <2>1, AtJoin
<1>5. At(d, 0, x \o y) /\ At(d, 0 + 8, z)
  <2>1. 0 \in Nat
    OBVIOUS
  <2> QED BY <1>1, <1>3, <1>4, <2>1, AtJoin
<1>6. At(d, 0, x) /\ At(d, 0 + 4, y)
  <2>1. 0 \in Nat
    OBVIOUS
  <2> QED BY <1>1, <1>5, <2>1, AtJoin
<1> QED BY <1>2, <1>3, <1>4, <1>5, <1>6 DEF x, y, z

\* What follows a beginning that has come in two parts.
LEMMA Behind ==
    ASSUME NEW a \in Seq(Nat), NEW r \in Seq(Nat), NEW z \in Seq(Nat), NEW x \in Seq(Nat),
           NEW t \in Seq(Nat), NEW d, a \o r = d, Joins(d, z, x, t), Long(a, x)
    PROVE  r \o z = t
<1>1. (a \o r) \o z = a \o (r \o z)
  BY Regroup, Zenon
<1>2. r \o z \in Seq(Nat)
  OBVIOUS
<1>3. Joins(a, r \o z, x, t)
  BY <1>1, Zenon DEF Joins
<1> DEFINE e == r \o z
<1> HIDE DEF e
<1>4. e = t
  BY <1>2, <1>3, Cancel, Zenon DEF e
<1> QED BY <1>4 DEF e

\* The integers of a header have come with it.
LEMMA HeaderCame ==
    ASSUME NEW d \in Seq(Nat), NEW z \in Seq(Nat), ~(Len(d) < 12), NEW n \in Nat,
           NEW k \in {0, 4, 8}, At(d \o z, k, LE(n, 4))
    PROVE  At(d, k, LE(n, 4))
<1> DEFINE x == LE(n, 4)
<1>1. x \in Seq(Nat) /\ Len(x) = 4
  BY LEIs
<1>2. At(d \o z, k, x)
  OBVIOUS
<1> HIDE DEF x
<1>3. Len(d) \in Nat /\ Len(d) >= 12
  OBVIOUS
<1>4. k \in Nat /\ k + Len(x) <= Len(d)
  BY <1>1, <1>3
<1> QED BY <1>1, <1>2, <1>4, AtPrefix DEF x

\* What the numbers of a packet hold.
Sendable(msg, sync, body) ==
    /\ msg \in Nat /\ msg < Limit(4) /\ sync \in Nat /\ sync < Limit(4)
    /\ body \in Seq(Nat) /\ Len(body) < Limit(4)

\* A packet that was read, of a stream that has t behind it when z has come.
Gives(p, msg, sync, body, z, t) ==
    /\ p.msg = msg /\ p.sync = sync /\ p.data = body
    /\ p.rest \in Seq(Nat) /\ p.rest \o z = t

\* A packet that is taken from the beginning of a stream is the one that was
\* written there, wherever the stream is cut, and leaves what has come behind it.
LEMMA PacketTaken ==
    ASSUME NEW msg, NEW sync, NEW body, Sendable(msg, sync, body),
           NEW d \in Seq(Nat), NEW z \in Seq(Nat), NEW t \in Seq(Nat), NEW limit,
           Joins(d, z, Packet(msg, sync, body), t), TakePacket(d, limit).ok
    PROVE  Gives(TakePacket(d, limit), msg, sync, body, z, t)
<1> DEFINE x == Packet(msg, sync, body)
           e == d \o z
           p == TakePacket(d, limit)
           u == TakeLE(4, d, 4)
           l == Len(body)
<1> /\ msg \in Nat /\ msg < Limit(4) /\ sync \in Nat /\ sync < Limit(4)
    /\ body \in Seq(Nat) /\ Len(body) < Limit(4)
  BY DEF Sendable
<1> d \o z = Packet(msg, sync, body) \o t
  BY DEF Joins
<1>0. x \in Seq(Nat) /\ e \in Seq(Nat) /\ l \in Nat
  <2>1. \A n \in Nat : LE(n, 4) \in Seq(Nat)
    BY LEIs
  <2>2. LE(msg, 4) \in Seq(Nat) /\ LE(sync, 4) \in Seq(Nat) /\ LE(l, 4) \in Seq(Nat)
    BY <2>1
  <2> QED BY <2>2 DEF Packet
<1>1. At(e, 0, x)
  BY <1>0, AtWhole
<1>2. /\ Len(x) = 12 + l /\ At(e, 0, LE(msg, 4)) /\ At(e, 4, LE(l, 4))
      /\ At(e, 8, LE(sync, 4)) /\ At(e, 12, body)
  <2> HIDE DEF e
  <2> QED BY <1>0, <1>1, PacketIs
<1>3. p = IF Len(d) < 12 THEN Fail
          ELSE IF u.v > limit \/ Len(d) < 12 + u.v THEN Fail
          ELSE [ok |-> TRUE, msg |-> TakeLE(4, d, 0).v, sync |-> TakeLE(4, d, 8).v,
                data |-> SubSeq(d, 13, 12 + u.v), rest |-> SubSeq(d, 13 + u.v, Len(d))]
  BY Zenon DEF TakePacket
<1>4. ~(Len(d) < 12)
  <2> HIDE DEF u
  <2>1. Fail.ok = FALSE
    BY DEF Fail
  <2> QED BY <1>3, <2>1
<1>5. At(d, 0, LE(msg, 4)) /\ At(d, 4, LE(l, 4)) /\ At(d, 8, LE(sync, 4))
  <2>1. \A n \in Nat : \A k \in {0, 4, 8} : At(d \o z, k, LE(n, 4)) => At(d, k, LE(n, 4))
    BY <1>4, HeaderCame, Zenon
  <2>2. /\ At(d \o z, 0, LE(msg, 4)) /\ At(d \o z, 4, LE(l, 4)) /\ At(d \o z, 8, LE(sync, 4))
    BY <1>2, Zenon
  <2>3. {0, 4, 8} = {k \in Nat : k = 0 \/ k = 4 \/ k = 8}
    OBVIOUS
  <2> HIDE DEF e, l
  <2> QED BY <1>0, <2>1, <2>2, Zenon
<1>6. u = Took(l, 8) /\ TakeLE(4, d, 0) = Took(msg, 4) /\ TakeLE(4, d, 8) = Took(sync, 12)
  <2>1. l < Limit(4) /\ 4 \in Nat \ {0} /\ 0 \in Nat /\ 8 \in Nat /\ 4 \in Nat
    OBVIOUS
  <2> HIDE DEF l
  <2>2. u = Took(l, 4 + 4)
    BY <1>0, <1>5, <2>1, LEReads
  <2>3. TakeLE(4, d, 0) = Took(msg, 0 + 4)
    BY <1>5, <2>1, LEReads
  <2>4. TakeLE(4, d, 8) = Took(sync, 8 + 4)
    BY <1>5, <2>1, LEReads
  <2> QED BY <2>2, <2>3, <2>4
<1>7. u.v = l /\ TakeLE(4, d, 0).v = msg /\ TakeLE(4, d, 8).v = sync
  <2> HIDE DEF u, l
  <2> QED BY <1>6 DEF Took
<1>8. 12 + l <= Len(d)
  <2>1. Fail.ok = FALSE
    BY DEF Fail
  <2>2. ~(Len(d) < 12 + u.v)
    <3> HIDE DEF u
    <3> QED BY <1>3, <1>4, <2>1
  <2> HIDE DEF u
  <2> QED BY <1>0, <1>7, <2>2
<1>9. At(d, 12, body)
  <2>1. 12 \in Nat /\ 12 + Len(body) <= Len(d)
    BY <1>8
  <2> QED BY <1>2, <2>1, AtPrefix
<1>10. SubSeq(d, 13, 12 + l) = body
  <2>1. 12 \in Nat /\ 12 + 1 = 13
    OBVIOUS
  <2>2. SubSeq(d, 12 + 1, 12 + Len(body)) = body
    BY <1>9, <2>1, AtCut
  <2> QED BY <2>1, <2>2
<1> DEFINE a == SubSeq(d, 1, 12 + l)
           r == SubSeq(d, 13 + l, Len(d))
<1>11. a \in Seq(Nat) /\ Len(a) = 12 + l /\ r \in Seq(Nat) /\ a \o r = d
  <2> DEFINE k == 12 + l
  <2>1. k \in Nat /\ k <= Len(d) /\ 13 + l = k + 1
    BY <1>0, <1>8
  <2> HIDE DEF k
  <2>2. /\ SubSeq(d, 1, k) \in Seq(Nat) /\ Len(SubSeq(d, 1, k)) = k
        /\ SubSeq(d, k + 1, Len(d)) \in Seq(Nat)
        /\ SubSeq(d, 1, k) \o SubSeq(d, k + 1, Len(d)) = d
    BY <2>1, Split
  <2> QED BY <2>1, <2>2 DEF k
<1>12. r \o z = t
  <2>1. Joins(d, z, x, t)
    BY DEF Joins
  <2> HIDE DEF a, r, l, x
  <2>2. /\ a \in Seq(Nat) /\ r \in Seq(Nat) /\ x \in Seq(Nat) /\ a \o r = d
        /\ Long(a, x)
    BY <1>0, <1>2, <1>11 DEF Long
  <2> QED BY <2>1, <2>2, Behind, Zenon
<1>13. p = [ok |-> TRUE, msg |-> msg, sync |-> sync, data |-> body, rest |-> r]
  <2>1. ~(u.v > limit)
    <3> HIDE DEF u
    <3> QED BY <1>3, <1>4 DEF Fail
  <2>2. ~(Len(d) < 12 + u.v)
    <3> HIDE DEF u
    <3> QED BY <1>0, <1>7, <1>8
  <2>3. p = [ok |-> TRUE, msg |-> TakeLE(4, d, 0).v, sync |-> TakeLE(4, d, 8).v,
                data |-> SubSeq(d, 13, 12 + u.v), rest |-> SubSeq(d, 13 + u.v, Len(d))]
    <3> HIDE DEF u, p
    <3> QED BY <1>3, <1>4, <2>1, <2>2, Zenon
  <2> HIDE DEF u, p
  <2> QED BY <1>7, <1>10, <2>3
<1> HIDE DEF p, r
<1>14. p.msg = msg /\ p.sync = sync /\ p.data = body /\ p.rest = r
  BY <1>13
<1>15. p.rest \in Seq(Nat) /\ p.rest \o z = t
  BY <1>11, <1>12, <1>14, Zenon
<1>16. Gives(p, msg, sync, body, z, t)
  BY <1>14, <1>15, Zenon DEF Gives
<1> QED BY <1>16, Zenon DEF p

-----------------------------------------------------------------------------
(* Fields, tuples and operations *)

\* The length of a list is an uint32.
LEMMA ListIs ==
    ASSUME NEW S, NEW l \in Lists(S)
    PROVE  l \in Seq(S) /\ Len(l) \in Nat /\ Len(l) < Limit(4)
<1>1. Limit(4) \in Nat
  BY Limits
<1> QED BY <1>1 DEF Lists, Uints

\* A list of strings, each with its reader's value, is read behind its number.
LEMMA CountedReads ==
    ASSUME NEW V, NEW vs \in Lists(V), NEW ws \in Seq(Seq(Nat)), Len(ws) = Len(vs),
           NEW d \in Seq(Nat), NEW take, \A i \in 1..Len(vs) : Reads(take, ws[i], vs[i], d)
    PROVE  PackCounted(ws) \in Seq(Nat) /\ Reads(Counted(take, d), PackCounted(ws), vs, d)
<1> DEFINE n == Len(ws)
           x == LE(n, 4)
           y == FlattenSeq(ws)
           takes == [i \in 1..n |-> take]
<1>1. n \in Nat /\ n < Limit(4) /\ n = Len(vs) /\ vs \in Seq(V) /\ Len(takes) = n
  <2>1. n \in Nat /\ Len(takes) = n
    OBVIOUS
  <2> QED BY <2>1, ListIs
<1>2. x \in Seq(Nat) /\ Len(x) = 4 /\ y \in Seq(Nat)
  <2> HIDE DEF n
  <2>1. 4 \in Nat
    OBVIOUS
  <2> QED BY <1>1, <2>1, LEIs, StartsHave
<1>3. \A i \in 1..n : Reads(takes[i], ws[i], vs[i], d)
  BY <1>1
<1>4. PackCounted(ws) = x \o y
  BY DEF PackCounted
<1> HIDE DEF n, x, y, takes
<1>5. x \o y \in Seq(Nat) /\ Len(x \o y) = 4 + Len(y) /\ Len(y) \in Nat
  <2> DEFINE a == x \o y
  <2>1. a \in Seq(Nat) /\ Len(a) = Len(x) + Len(y) /\ Len(y) \in Nat
    BY <1>2, Join, Zenon
  <2> HIDE DEF a
  <2>2. a \in Seq(Nat) /\ Len(a) = 4 + Len(y) /\ Len(y) \in Nat
    BY <1>2, <2>1
  <2> QED BY <2>2 DEF a
<1>6. ASSUME NEW p \in 0..Len(d), At(d, p, x \o y)
      PROVE  Counted(take, d)[p] = Took(vs, p + Len(x \o y))
  <2>1. p \in Nat /\ p + 4 \in Nat
    OBVIOUS
  <2>2. At(d, p, x) /\ At(d, p + 4, y)
    <3>1. At(d, p, x) /\ At(d, p + Len(x), y)
      BY <1>2, <1>6, <2>1, AtJoin, Zenon
    <3> QED BY <1>2, <3>1
  <2>3. TakeLE(4, d, p) = Took(n, p + 4)
    <3>1. 4 \in Nat \ {0}
      OBVIOUS
    <3> QED BY <1>1, <2>1, <2>2, <3>1, LEReads DEF x
  <2> DEFINE k == TakeLE(4, d, p)
  <2>4. k.ok = TRUE /\ k.v = n /\ k.p = p + 4
    <3> HIDE DEF k
    <3>1. k = Took(n, p + 4)
      BY <2>3 DEF k
    <3> QED BY <3>1 DEF Took
  <2>5. Counted(take, d)[p] = IF k.ok THEN TakeEach([i \in 1..k.v |-> take], k.p) ELSE Fail
    BY DEF Counted
  <2> HIDE DEF k
  <2>6. Counted(take, d)[p] = TakeEach(takes, p + 4)
    BY <2>4, <2>5 DEF takes
  <2> DEFINE b == p + 4
  <2>7. b \in Nat /\ At(d, b, y)
    BY <2>1, <2>2
  <2> HIDE DEF b
  <2>8. TakeEach(takes, b) = Took(vs, b + Len(y))
    <3>1. Len(takes) = Len(vs) /\ Len(ws) = Len(vs) /\ \A i \in 1..Len(vs) : Reads(takes[i], ws[i], vs[i], d)
      BY <1>1, <1>3
    <3>2. At(d, b, FlattenSeq(ws))
      BY <2>7 DEF y
    <3>3. TakeEach(takes, b) = Took(vs, b + Len(FlattenSeq(ws)))
      BY <1>1, <2>7, <3>1, <3>2, EachReads
    <3> QED BY <3>3 DEF y
  <2>9. (p + 4) + Len(y) = p + (4 + Len(y))
    BY <1>5
  <2> DEFINE l == Len(x \o y)
  <2>10. l = 4 + Len(y)
    BY <1>5
  <2> HIDE DEF l
  <2>11. Counted(take, d)[p] = Took(vs, p + l)
    BY <2>6, <2>8, <2>9, <2>10 DEF b
  <2> QED BY <2>11 DEF l
<1>7. Reads(Counted(take, d), x \o y, vs, d)
  BY <1>6 DEF Reads
<1> QED BY <1>4, <1>5, <1>7

\* The readers find the integers,
LEMMA UintsRead ==
    ASSUME NEW d \in Seq(Nat), NEW v \in Nat
    PROVE  /\ v < Limit(4) => Reads(U4(d), LE(v, 4), v, d)
           /\ v < Limit(1) => Reads(U1(d), LE(v, 1), v, d)
           /\ LE(v, 4) \in Seq(Nat) /\ LE(v, 1) \in Seq(Nat) /\ Len(LE(v, 4)) = 4 /\ Len(LE(v, 1)) = 1
<1>0. {1, 4} \subseteq Nat \ {0}
  OBVIOUS
<1>1. \A k \in {1, 4} : LE(v, k) \in Seq(Nat) /\ Len(LE(v, k)) = k
  BY <1>0, LEIs
<1>2. ASSUME NEW k \in {1, 4}, v < Limit(k), NEW p \in 0..Len(d), At(d, p, LE(v, k))
      PROVE  TakeLE(k, d, p) = Took(v, p + Len(LE(v, k)))
  <2>1. p \in Nat /\ k \in Nat \ {0}
    BY <1>0
  <2>2. TakeLE(k, d, p) = Took(v, p + k)
    BY <1>2, <2>1, LEReads
  <2> QED BY <1>1, <2>2
<1>3. ASSUME v < Limit(4) PROVE Reads(U4(d), LE(v, 4), v, d)
  <2> SUFFICES ASSUME NEW p \in 0..Len(d), At(d, p, LE(v, 4))
               PROVE  U4(d)[p] = Took(v, p + Len(LE(v, 4)))
    BY DEF Reads
  <2>1. TakeLE(4, d, p) = Took(v, p + Len(LE(v, 4)))
    BY <1>2, <1>3
  <2>2. U4(d)[p] = TakeLE(4, d, p)
    BY DEF U4
  <2> QED BY <2>1, <2>2
<1>4. ASSUME v < Limit(1) PROVE Reads(U1(d), LE(v, 1), v, d)
  <2> SUFFICES ASSUME NEW p \in 0..Len(d), At(d, p, LE(v, 1))
               PROVE  U1(d)[p] = Took(v, p + Len(LE(v, 1)))
    BY DEF Reads
  <2>1. TakeLE(1, d, p) = Took(v, p + Len(LE(v, 1)))
    BY <1>2, <1>4
  <2>2. U1(d)[p] = TakeLE(1, d, p)
    BY DEF U1
  <2> QED BY <2>1, <2>2
<1> QED BY <1>1, <1>3, <1>4

\* the fields,
LEMMA FieldReads ==
    ASSUME NEW d \in Seq(Nat), NEW f \in Fields
    PROVE  Reads(Field(d), PackField(f), f, d) /\ PackField(f) \in Seq(Nat)
<1>0. f \in Seq(Nat) /\ Len(f) < Limit(4)
  BY ListIs DEF Fields
<1>1. PackField(f) \in Seq(Nat)
  <2> DEFINE l == Len(f)
  <2>1. l \in Nat /\ l < Limit(4)
    BY <1>0
  <2> HIDE DEF l
  <2>2. BER(l) \in Seq(Nat)
    BY <2>1, BERIs DEF Grouped
  <2>3. BER(l) \o f \in Seq(Nat)
    BY <1>0, <2>2, Join
  <2> QED BY <2>3 DEF PackField, PackBytes, PackUint, l
<1>2. ASSUME NEW p \in 0..Len(d), At(d, p, PackField(f))
      PROVE  Field(d)[p] = Took(f, p + Len(PackField(f)))
  <2>1. p \in Nat
    OBVIOUS
  <2>2. TakeBytes(TRUE, d, p) = Took(f, p + Len(PackField(f)))
    BY <1>0, <1>2, <2>1, BytesRead DEF PackField
  <2>3. Field(d)[p] = TakeBytes(TRUE, d, p)
    BY DEF Field
  <2> QED BY <2>2, <2>3
<1> QED BY <1>1, <1>2 DEF Reads

\* the tuples and keys,
LEMMA TupleReads ==
    ASSUME NEW d \in Seq(Nat), NEW t \in Lists(Fields)
    PROVE  Reads(Tuple(d), PackTuple(t), t, d) /\ PackTuple(t) \in Seq(Nat)
<1> DEFINE ws == [i \in DOMAIN t |-> PackField(t[i])]
           V == Fields
<1>1. t \in Seq(V) /\ DOMAIN t = 1..Len(t) /\ Len(t) \in Nat
  BY ListIs
<1>2. \A i \in 1..Len(t) : PackField(t[i]) \in Seq(Nat) /\ Reads(Field(d), PackField(t[i]), t[i], d)
  <2> TAKE i \in 1..Len(t)
  <2>1. t[i] \in V
    <3> HIDE DEF V
    <3> QED BY <1>1
  <2> QED BY <2>1, FieldReads
<1>3. ws \in Seq(Seq(Nat)) /\ Len(ws) = Len(t) /\ \A i \in 1..Len(t) : ws[i] = PackField(t[i])
  BY <1>1, <1>2
<1> HIDE DEF ws
<1>4. PackCounted(ws) \in Seq(Nat) /\ Reads(Counted(Field(d), d), PackCounted(ws), t, d)
  <2> DEFINE take == Field(d)
  <2>1. \A i \in 1..Len(t) : Reads(take, ws[i], t[i], d)
    BY <1>2, <1>3
  <2> HIDE DEF take, V
  <2>2. t \in Lists(V)
    BY DEF V
  <2>3. PackCounted(ws) \in Seq(Nat) /\ Reads(Counted(take, d), PackCounted(ws), t, d)
    BY <1>3, <2>1, <2>2, CountedReads
  <2> QED BY <2>3 DEF take
<1> QED BY <1>4 DEF Tuple, PackTuple, ws

\* and lists of them.
LEMMA TuplesRead ==
    ASSUME NEW d \in Seq(Nat), NEW ts \in Lists(Lists(Fields))
    PROVE  Reads(Tuples(d), PackTuples(ts), ts, d) /\ PackTuples(ts) \in Seq(Nat)
<1> DEFINE V == Lists(Fields)
           ws == [i \in DOMAIN ts |-> PackTuple(ts[i])]
<1>1. ts \in Seq(V) /\ DOMAIN ts = 1..Len(ts) /\ Len(ts) \in Nat /\ ts \in Lists(V)
  <2> HIDE DEF V
  <2>1. ts \in Lists(V)
    BY DEF V
  <2> QED BY <2>1, ListIs
<1>2. \A i \in 1..Len(ts) : PackTuple(ts[i]) \in Seq(Nat) /\ Reads(Tuple(d), PackTuple(ts[i]), ts[i], d)
  <2> TAKE i \in 1..Len(ts)
  <2>1. ts[i] \in V
    <3> HIDE DEF V
    <3> QED BY <1>1
  <2> QED BY <2>1, TupleReads
<1>3. ws \in Seq(Seq(Nat)) /\ Len(ws) = Len(ts) /\ \A i \in 1..Len(ts) : ws[i] = PackTuple(ts[i])
  BY <1>1, <1>2
<1> HIDE DEF ws
<1>4. PackCounted(ws) \in Seq(Nat) /\ Reads(Counted(Tuple(d), d), PackCounted(ws), ts, d)
  <2> DEFINE take == Tuple(d)
  <2>1. \A i \in 1..Len(ts) : Reads(take, ws[i], ts[i], d)
    BY <1>2, <1>3
  <2> HIDE DEF take, V
  <2>3. PackCounted(ws) \in Seq(Nat) /\ Reads(Counted(take, d), PackCounted(ws), ts, d)
    BY <1>1, <1>3, <2>1, CountedReads
  <2> QED BY <2>3 DEF take
<1> QED BY <1>4 DEF Tuples, PackTuples, ws

\* Three values of a list are that list, whatever they are.
LEMMA ThreeRead ==
    ASSUME NEW d \in Seq(Nat), NEW x \in Seq(Nat), NEW y \in Seq(Nat), NEW z \in Seq(Nat),
           NEW a, NEW b, NEW c, NEW f, NEW g, NEW h,
           Reads(f, x, a, d), Reads(g, y, b, d), Reads(h, z, c, d),
           NEW p \in Nat, At(d, p, FlattenSeq(<<x, y, z>>))
    PROVE  /\ FlattenSeq(<<x, y, z>>) \in Seq(Nat)
           /\ TakeEach(<<f, g, h>>, p) = Took(<<a, b, c>>, p + Len(FlattenSeq(<<x, y, z>>)))
<1> DEFINE V == {a, b, c}
           vs == <<a, b, c>>
           ws == <<x, y, z>>
           takes == <<f, g, h>>
<1>1. vs \in Seq(V) /\ ws \in Seq(Seq(Nat)) /\ Len(takes) = Len(vs) /\ Len(ws) = Len(vs)
  OBVIOUS
<1>2. \A i \in 1..Len(vs) : Reads(takes[i], ws[i], vs[i], d)
  <2> TAKE i \in 1..Len(vs)
  <2>1. i = 1 \/ i = 2 \/ i = 3
    OBVIOUS
  <2>2. CASE i = 1
    BY <2>2
  <2>3. CASE i = 2
    BY <2>3
  <2>4. CASE i = 3
    BY <2>4
  <2> QED BY <2>1, <2>2, <2>3, <2>4
<1> HIDE DEF V, vs, ws, takes
<1>3. At(d, p, FlattenSeq(ws))
  BY DEF ws
<1>4. FlattenSeq(ws) \in Seq(Nat) /\ TakeEach(takes, p) = Took(vs, p + Len(FlattenSeq(ws)))
  BY <1>1, <1>2, <1>3, EachReads, StartsHave
<1> QED BY <1>4 DEF vs, ws, takes

\* The operations of an update.
LEMMA OpReads ==
    ASSUME NEW d \in Seq(Nat), NEW o \in Changes
    PROVE  Reads(Op(d), PackOp(o), o, d) /\ PackOp(o) \in Seq(Nat)
<1>1. /\ o = <<o[1], o[2], o[3]>> /\ o[1] \in Uints /\ o[2] \in Octets /\ o[3] \in Fields
  BY DEF Changes
<1>2. o[1] \in Nat /\ o[1] < Limit(4) /\ o[2] \in Nat /\ o[2] < Limit(1)
  <2>1. Limit(4) \in Nat /\ Limit(1) = Byte /\ Byte \in Nat
    BY Limits, Radices
  <2> QED BY <1>1, <2>1 DEF Uints, Octets
<1> DEFINE x == LE(o[1], 4)
           y == LE(o[2], 1)
           z == PackField(o[3])
           ws == <<x, y, z>>
<1>3. /\ x \in Seq(Nat) /\ y \in Seq(Nat) /\ z \in Seq(Nat)
      /\ Reads(U4(d), x, o[1], d) /\ Reads(U1(d), y, o[2], d) /\ Reads(Field(d), z, o[3], d)
  BY <1>1, <1>2, UintsRead, FieldReads
<1>4. PackOp(o) = FlattenSeq(ws)
  BY DEF PackOp
<1> HIDE DEF x, y, z
<1>5. FlattenSeq(ws) \in Seq(Nat)
  <2>1. ws \in Seq(Seq(Nat))
    BY <1>3
  <2> HIDE DEF ws
  <2> QED BY <2>1, StartsHave
<1>6. ASSUME NEW p \in 0..Len(d), At(d, p, FlattenSeq(ws))
      PROVE  Op(d)[p] = Took(o, p + Len(FlattenSeq(ws)))
  <2>1. p \in Nat
    OBVIOUS
  <2>2. TakeEach(<<U4(d), U1(d), Field(d)>>, p) = Took(<<o[1], o[2], o[3]>>, p + Len(FlattenSeq(ws)))
    BY <1>3, <1>6, <2>1, ThreeRead
  <2>3. Op(d)[p] = TakeEach(<<U4(d), U1(d), Field(d)>>, p)
    BY DEF Op
  <2> HIDE DEF ws
  <2> QED BY <1>1, <2>2, <2>3, Zenon
<1> HIDE DEF ws
<1>7. Reads(Op(d), FlattenSeq(ws), o, d)
  BY <1>6 DEF Reads
<1> QED BY <1>4, <1>5, <1>7

\* Operations are read as they were.
LEMMA OpsRead ==
    ASSUME NEW d \in Seq(Nat), NEW os \in Lists(Changes)
    PROVE  Reads(Ops(d), PackOps(os), os, d) /\ PackOps(os) \in Seq(Nat)
<1> DEFINE V == Changes
           ws == [i \in DOMAIN os |-> PackOp(os[i])]
<1>1. os \in Seq(V) /\ DOMAIN os = 1..Len(os) /\ Len(os) \in Nat /\ os \in Lists(V)
  <2> HIDE DEF V
  <2>1. os \in Lists(V)
    BY DEF V
  <2> QED BY <2>1, ListIs
<1>2. \A i \in 1..Len(os) : PackOp(os[i]) \in Seq(Nat) /\ Reads(Op(d), PackOp(os[i]), os[i], d)
  <2> TAKE i \in 1..Len(os)
  <2>1. os[i] \in V
    <3> HIDE DEF V
    <3> QED BY <1>1
  <2> QED BY <2>1, OpReads
<1>3. ws \in Seq(Seq(Nat)) /\ Len(ws) = Len(os) /\ \A i \in 1..Len(os) : ws[i] = PackOp(os[i])
  BY <1>1, <1>2
<1> HIDE DEF ws
<1>4. PackCounted(ws) \in Seq(Nat) /\ Reads(Counted(Op(d), d), PackCounted(ws), os, d)
  <2> DEFINE take == Op(d)
  <2>1. \A i \in 1..Len(os) : Reads(take, ws[i], os[i], d)
    BY <1>2, <1>3
  <2> HIDE DEF take, V
  <2>3. PackCounted(ws) \in Seq(Nat) /\ Reads(Counted(take, d), PackCounted(ws), os, d)
    BY <1>1, <1>3, <2>1, CountedReads
  <2> QED BY <2>3 DEF take
<1> QED BY <1>4 DEF Ops, PackOps, ws

-----------------------------------------------------------------------------
(* Requests *)

\* A request that is no update is what its layout finds,
LEMMA ReadsOne ==
    ASSUME NEW kind, kind # "update", NEW d, NEW vs, NEW e,
           TakeEach(Layout(kind, d), 0) = Took(vs, e), kind = "lua" => vs[1] = 0
    PROVE  ReadRequest(kind, d) = [ok |-> TRUE, r |-> Request(kind, vs)]
<1> DEFINE key   == TakeEach(Layout("delete", d), 0)
           short == kind = "update" /\ key.ok /\ key.p = Len(d)
           r     == IF short THEN key ELSE TakeEach(Layout(kind, d), 0)
<1>1. ReadRequest(kind, d) = IF ~r.ok \/ (kind = "lua" /\ r.v[1] # 0) THEN Fail
                             ELSE [ok |-> TRUE, r |-> Request(kind, r.v)]
  BY Zenon DEF ReadRequest
<1>2. r = Took(vs, e)
  <2>1. ~short
    BY Zenon
  <2> HIDE DEF short
  <2> QED BY <2>1
<1> HIDE DEF r
<1>3. r.ok = TRUE /\ r.v = vs
  BY <1>2 DEF Took
<1>4. ~(~r.ok \/ (kind = "lua" /\ r.v[1] # 0))
  BY <1>3
<1> QED BY <1>1, <1>3, <1>4

\* and an update is that, unless the layout of a deletion takes all.
LEMMA ReadsUpdate ==
    ASSUME NEW d, NEW vs, NEW e, NEW key, TakeEach(Layout("delete", d), 0) = Took(key, e)
    PROVE  /\ e = Len(d) => ReadRequest("update", d) = [ok |-> TRUE, r |-> Request("update", key)]
           /\ \A f : e # Len(d) /\ TakeEach(Layout("update", d), 0) = Took(vs, f) =>
                 ReadRequest("update", d) = [ok |-> TRUE, r |-> Request("update", vs)]
<1> DEFINE kind  == "update"
           k     == TakeEach(Layout("delete", d), 0)
           short == kind = "update" /\ k.ok /\ k.p = Len(d)
           u     == TakeEach(Layout(kind, d), 0)
           r     == IF short THEN k ELSE u
<1>1. ReadRequest(kind, d) = IF ~r.ok \/ (kind = "lua" /\ r.v[1] # 0) THEN Fail
                             ELSE [ok |-> TRUE, r |-> Request(kind, r.v)]
  BY Zenon DEF ReadRequest
<1> HIDE DEF k, u
<1>2. k = Took(key, e)
  BY DEF k
<1>3. k.ok = TRUE /\ k.p = e /\ k.v = key
  BY <1>2 DEF Took
<1>4. ASSUME e = Len(d) PROVE ReadRequest("update", d) = [ok |-> TRUE, r |-> Request("update", key)]
  BY <1>1, <1>3, <1>4
<1>5. ASSUME NEW f, e # Len(d), u = Took(vs, f)
      PROVE  ReadRequest("update", d) = [ok |-> TRUE, r |-> Request("update", vs)]
  <2>1. u.ok = TRUE /\ u.v = vs
    BY <1>5 DEF Took
  <2> QED BY <1>1, <1>3, <1>5, <2>1
<1> QED BY <1>4, <1>5 DEF u

\* The flags of an insert give the mode back, as a flag.
LEMMA FlagsIs ==
    ASSUME NEW mode \in 0..2
    PROVE  /\ Flags(mode) \in Nat /\ Flags(mode) < Limit(4)
           /\ ModeOf(Flags(mode)) = IF mode = 0 THEN 0 ELSE Power(2, mode)
<1>1. Power(2, 1) = 2 /\ Power(2, 2) = 4
  <2>1. \A n \in Nat : Power(2, 0) = 1 /\ Power(2, n + 1) = 2 * Power(2, n)
    <3>1. 2 \in Nat
      OBVIOUS
    <3> QED BY <3>1, PowerStep
  <2>2. 0 \in Nat /\ 1 \in Nat /\ 0 + 1 = 1 /\ 1 + 1 = 2
    OBVIOUS
  <2>3. Power(2, 1) = 2 * Power(2, 0) /\ Power(2, 2) = 2 * Power(2, 1)
    BY <2>1, <2>2
  <2> QED BY <2>1, <2>2, <2>3
<1>2. Flags(mode) = IF mode = 0 THEN 1 ELSE IF mode = 1 THEN 3 ELSE 5
  BY <1>1 DEF Flags
<1>3. 32 <= Limit(4)
  <2>1. Byte \in Nat /\ Byte >= 32 /\ Limit(4) = Byte * (Byte * (Byte * Byte))
    BY Limits, WireAssumption DEF Byte
  <2>2. \A x, y \in Nat : x >= 32 /\ y >= 32 => x * y \in Nat /\ x * y >= 32
    OBVIOUS
  <2>3. Byte * Byte \in Nat /\ Byte * Byte >= 32
    BY <2>1, <2>2
  <2>4. Byte * (Byte * Byte) \in Nat /\ Byte * (Byte * Byte) >= 32
    BY <2>1, <2>2, <2>3
  <2> QED BY <2>1, <2>2, <2>4
<1>4. Flags(mode) \in Nat /\ Flags(mode) < Limit(4)
  BY <1>2, <1>3, Limits
<1>5. ModeOf(Flags(mode)) = IF mode = 0 THEN 0 ELSE Power(2, mode)
  BY <1>1, <1>2 DEF ModeOf
<1> QED BY <1>4, <1>5

\* The parts of a body are found from its beginning to its end.
LEMMA PartsRead ==
    ASSUME NEW V, NEW vs \in Seq(V), NEW ws \in Seq(Seq(Nat)), NEW takes, NEW d,
           Len(takes) = Len(vs), Len(ws) = Len(vs), d = FlattenSeq(ws),
           \A i \in 1..Len(vs) : Reads(takes[i], ws[i], vs[i], d)
    PROVE  d \in Seq(Nat) /\ TakeEach(takes, 0) = Took(vs, Len(d))
<1>1. d \in Seq(Nat)
  BY StartsHave
<1>2. At(d, 0, d)
  BY <1>1, AtWhole
<1> DEFINE p == 0
<1>3. p \in Nat /\ At(d, p, FlattenSeq(ws))
  BY <1>2
<1>4. p + Len(d) = Len(d)
  BY <1>1
<1> HIDE DEF p
<1>5. TakeEach(takes, p) = Took(vs, p + Len(FlattenSeq(ws)))
  BY <1>1, <1>3, EachReads
<1> QED BY <1>1, <1>4, <1>5 DEF p

\* A request of three parts is read one part after another.
LEMMA ThreeParts ==
    ASSUME NEW x \in Seq(Nat), NEW y \in Seq(Nat), NEW z \in Seq(Nat), NEW d,
           d = FlattenSeq(<<x, y, z>>),
           NEW a, NEW b, NEW c, NEW f, NEW g, NEW h,
           Reads(f, x, a, d), Reads(g, y, b, d), Reads(h, z, c, d)
    PROVE  d \in Seq(Nat) /\ TakeEach(<<f, g, h>>, 0) = Took(<<a, b, c>>, Len(d))
<1> DEFINE V == {a, b, c}
           vs == <<a, b, c>>
           ws == <<x, y, z>>
           takes == <<f, g, h>>
<1>1. vs \in Seq(V) /\ ws \in Seq(Seq(Nat)) /\ Len(takes) = Len(vs) /\ Len(ws) = Len(vs)
  OBVIOUS
<1>2. \A i \in 1..Len(vs) : Reads(takes[i], ws[i], vs[i], d)
  <2> TAKE i \in 1..Len(vs)
  <2>1. CASE i = 1
    BY <2>1
  <2>2. CASE i = 2
    BY <2>2
  <2>3. CASE i = 3
    BY <2>3
  <2> QED BY <2>1, <2>2, <2>3
<1>3. d = FlattenSeq(ws)
  OBVIOUS
<1> HIDE DEF V, vs, ws, takes
<1>4. d \in Seq(Nat)
  BY <1>1, <1>3, StartsHave
<1>5. TakeEach(takes, 0) = Took(vs, Len(d))
  BY <1>1, <1>2, <1>3, PartsRead
<1> QED BY <1>4, <1>5 DEF vs, takes

\* What a server makes of an insert: the mode comes as its flag.
LEMMA InsertRead ==
    ASSUME NEW r \in Inserts
    PROVE  /\ Body(r) \in Seq(Nat)
           /\ ReadRequest(r.kind, Body(r)) =
                [ok |-> TRUE, r |-> [r EXCEPT !.mode = IF @ = 0 THEN 0 ELSE Power(2, @)]]
<1> DEFINE x == LE(r.ns, 4)
           y == LE(Flags(r.mode), 4)
           z == PackTuple(r.tuple)
           d == Body(r)
<1>1. /\ r.kind = "insert" /\ r.ns \in Uints /\ r.mode \in 0..2 /\ r.tuple \in Lists(Fields)
      /\ r = [kind |-> "insert", ns |-> r.ns, mode |-> r.mode, tuple |-> r.tuple]
  BY DEF Inserts
<1>2. r.ns \in Nat /\ r.ns < Limit(4) /\ Flags(r.mode) \in Nat /\ Flags(r.mode) < Limit(4)
  BY <1>1, FlagsIs, Limits DEF Uints
<1>3. d = FlattenSeq(<<x, y, z>>)
  BY <1>1 DEF Body, Packed
<1> HIDE DEF d
<1>4. <<x, y, z>> \in Seq(Seq(Nat)) /\ x \in Seq(Nat) /\ y \in Seq(Nat) /\ z \in Seq(Nat)
  <2>1. \A n \in Nat : LE(n, 4) \in Seq(Nat)
    BY LEIs
  <2>2. x \in Seq(Nat) /\ y \in Seq(Nat)
    BY <1>2, <2>1
  <2>3. z \in Seq(Nat)
    <3>1. <<>> \in Seq(Nat)
      OBVIOUS
    <3> QED BY <1>1, <3>1, TupleReads
  <2> HIDE DEF x, y, z
  <2> QED BY <2>2, <2>3
<1>5. d \in Seq(Nat)
  <2> HIDE DEF x, y, z
  <2> QED BY <1>3, <1>4, StartsHave
<1>6. /\ Reads(U4(d), x, r.ns, d) /\ Reads(U4(d), y, Flags(r.mode), d)
      /\ Reads(Tuple(d), z, r.tuple, d)
  BY <1>1, <1>2, <1>5, UintsRead, TupleReads
<1> HIDE DEF x, y, z
<1>7. TakeEach(<<U4(d), U4(d), Tuple(d)>>, 0) = Took(<<r.ns, Flags(r.mode), r.tuple>>, Len(d))
  BY <1>3, <1>4, <1>6, ThreeParts
<1>8. ReadRequest("insert", d) =
        [ok |-> TRUE, r |-> Request("insert", <<r.ns, Flags(r.mode), r.tuple>>)]
  <2> DEFINE vs == <<r.ns, Flags(r.mode), r.tuple>>
             e == Len(d)
             kind == "insert"
  <2>1. TakeEach(Layout(kind, d), 0) = Took(vs, e) /\ kind # "update" /\ kind # "lua"
    BY <1>7 DEF Layout
  <2> HIDE DEF vs, e, kind
  <2>2. ReadRequest(kind, d) = [ok |-> TRUE, r |-> Request(kind, vs)]
    BY <2>1, ReadsOne
  <2> QED BY <2>2 DEF vs, kind
<1>9. Request("insert", <<r.ns, Flags(r.mode), r.tuple>>) =
        [r EXCEPT !.mode = IF @ = 0 THEN 0 ELSE Power(2, @)]
  <2>1. ModeOf(Flags(r.mode)) = IF r.mode = 0 THEN 0 ELSE Power(2, r.mode)
    BY <1>1, FlagsIs
  <2>2. Request("insert", <<r.ns, Flags(r.mode), r.tuple>>) =
          [kind |-> "insert", ns |-> r.ns, mode |-> ModeOf(Flags(r.mode)), tuple |-> r.tuple]
    BY DEF Request
  <2> QED BY <1>1, <2>1, <2>2
<1> QED BY <1>1, <1>5, <1>8, <1>9 DEF d

\* A deletion is read as it was.
LEMMA DeleteRead ==
    ASSUME NEW r \in Deletes
    PROVE  Body(r) \in Seq(Nat) /\ ReadRequest(r.kind, Body(r)) = [ok |-> TRUE, r |-> r]
<1> DEFINE x == LE(r.ns, 4)
           y == LE(Flags(0), 4)
           z == PackTuple(r.key)
           d == Body(r)
<1>1. /\ r.kind = "delete" /\ r.ns \in Uints /\ r.key \in Lists(Fields)
      /\ r = [kind |-> "delete", ns |-> r.ns, key |-> r.key]
  BY DEF Deletes
<1>2. r.ns \in Nat /\ r.ns < Limit(4) /\ Flags(0) \in Nat /\ Flags(0) < Limit(4)
  <2>1. 0 \in 0..2
    OBVIOUS
  <2> QED BY <1>1, <2>1, FlagsIs, Limits DEF Uints
<1>3. d = FlattenSeq(<<x, y, z>>)
  BY <1>1 DEF Body, Packed
<1> HIDE DEF d
<1>4. <<x, y, z>> \in Seq(Seq(Nat)) /\ x \in Seq(Nat) /\ y \in Seq(Nat) /\ z \in Seq(Nat)
  <2>1. \A n \in Nat : LE(n, 4) \in Seq(Nat)
    BY LEIs
  <2>2. x \in Seq(Nat) /\ y \in Seq(Nat)
    BY <1>2, <2>1
  <2>3. z \in Seq(Nat)
    <3>1. <<>> \in Seq(Nat)
      OBVIOUS
    <3> QED BY <1>1, <3>1, TupleReads
  <2> HIDE DEF x, y, z
  <2> QED BY <2>2, <2>3
<1>5. d \in Seq(Nat)
  <2> HIDE DEF x, y, z
  <2> QED BY <1>3, <1>4, StartsHave
<1>6. /\ Reads(U4(d), x, r.ns, d) /\ Reads(U4(d), y, Flags(0), d)
      /\ Reads(Tuple(d), z, r.key, d)
  BY <1>1, <1>2, <1>5, UintsRead, TupleReads
<1> HIDE DEF x, y, z
<1>7. TakeEach(<<U4(d), U4(d), Tuple(d)>>, 0) = Took(<<r.ns, Flags(0), r.key>>, Len(d))
  BY <1>3, <1>4, <1>6, ThreeParts
<1>8. ReadRequest("delete", d) =
        [ok |-> TRUE, r |-> Request("delete", <<r.ns, Flags(0), r.key>>)]
  <2> DEFINE vs == <<r.ns, Flags(0), r.key>>
             e == Len(d)
             kind == "delete"
  <2>1. TakeEach(Layout(kind, d), 0) = Took(vs, e) /\ kind # "update" /\ kind # "lua"
    BY <1>7 DEF Layout
  <2> HIDE DEF vs, e, kind
  <2>2. ReadRequest(kind, d) = [ok |-> TRUE, r |-> Request(kind, vs)]
    BY <2>1, ReadsOne
  <2> QED BY <2>2 DEF vs, kind
<1>9. Request("delete", <<r.ns, Flags(0), r.key>>) = r
  BY <1>1 DEF Request
<1> QED BY <1>1, <1>5, <1>8, <1>9 DEF d

\* A call of Lua is read as it was.
LEMMA LuaRead ==
    ASSUME NEW r \in Luas
    PROVE  Body(r) \in Seq(Nat) /\ ReadRequest(r.kind, Body(r)) = [ok |-> TRUE, r |-> r]
<1> DEFINE x == LE(0, 4)
           y == PackField(r.name)
           z == PackTuple(r.args)
           d == Body(r)
<1>1. /\ r.kind = "lua" /\ r.name \in Fields /\ r.args \in Lists(Fields)
      /\ r = [kind |-> "lua", name |-> r.name, args |-> r.args]
  BY DEF Luas
<1>2. 0 \in Nat /\ 0 < Limit(4)
  <2>1. 0 \in 0..2
    OBVIOUS
  <2>2. Flags(0) \in Nat /\ Flags(0) < Limit(4) /\ Limit(4) \in Nat
    BY <2>1, FlagsIs, Limits
  <2> QED BY <2>2
<1>3. d = FlattenSeq(<<x, y, z>>)
  BY <1>1 DEF Body, Packed
<1> HIDE DEF d
<1>4. <<x, y, z>> \in Seq(Seq(Nat)) /\ x \in Seq(Nat) /\ y \in Seq(Nat) /\ z \in Seq(Nat)
  <2>1. <<>> \in Seq(Nat)
    OBVIOUS
  <2>2. x \in Seq(Nat) /\ y \in Seq(Nat)
    BY <1>1, <1>2, <2>1, UintsRead, FieldReads
  <2>3. z \in Seq(Nat)
    BY <1>1, <2>1, TupleReads
  <2> HIDE DEF x, y, z
  <2> QED BY <2>2, <2>3
<1>5. d \in Seq(Nat)
  <2> HIDE DEF x, y, z
  <2> QED BY <1>3, <1>4, StartsHave
<1>6. /\ Reads(U4(d), x, 0, d) /\ Reads(Field(d), y, r.name, d)
      /\ Reads(Tuple(d), z, r.args, d)
  BY <1>1, <1>2, <1>5, UintsRead, FieldReads, TupleReads
<1> HIDE DEF x, y, z
<1>7. TakeEach(<<U4(d), Field(d), Tuple(d)>>, 0) = Took(<<0, r.name, r.args>>, Len(d))
  BY <1>3, <1>4, <1>6, ThreeParts
<1>8. ReadRequest("lua", d) = [ok |-> TRUE, r |-> Request("lua", <<0, r.name, r.args>>)]
  <2> DEFINE vs == <<0, r.name, r.args>>
             e == Len(d)
             kind == "lua"
  <2>1. TakeEach(Layout(kind, d), 0) = Took(vs, e) /\ kind # "update" /\ vs[1] = 0
    BY <1>7 DEF Layout
  <2> HIDE DEF vs, e, kind
  <2>2. ReadRequest(kind, d) = [ok |-> TRUE, r |-> Request(kind, vs)]
    BY <2>1, ReadsOne
  <2> QED BY <2>2 DEF vs, kind
<1>9. Request("lua", <<0, r.name, r.args>>) = r
  BY <1>1 DEF Request
<1> QED BY <1>1, <1>5, <1>8, <1>9 DEF d

\* The largest limit of a selection is read as none.
LEMMA SelectRead ==
    ASSUME NEW r \in Selects
    PROVE  /\ Body(r) \in Seq(Nat)
           /\ ReadRequest(r.kind, Body(r)) =
                [ok |-> TRUE, r |-> [r EXCEPT !.limit = IF @ = NoLimit THEN 0 ELSE @]]
<1> DEFINE l == IF r.limit = 0 THEN NoLimit ELSE r.limit
           ws == <<LE(r.ns, 4), LE(r.index, 4), LE(r.offset, 4), LE(l, 4), PackTuples(r.keys)>>
           vs == <<r.ns, r.index, r.offset, l, r.keys>>
           d == Body(r)
           takes == <<U4(d), U4(d), U4(d), U4(d), Tuples(d)>>
           V == {r.ns, r.index, r.offset, l, r.keys}
<1>1. /\ r.kind = "select" /\ r.ns \in Uints /\ r.index \in Uints /\ r.offset \in Uints
      /\ r.limit \in Uints /\ r.keys \in Lists(Lists(Fields))
      /\ r = [kind |-> "select", ns |-> r.ns, index |-> r.index, offset |-> r.offset,
              limit |-> r.limit, keys |-> r.keys]
  BY DEF Selects
<1>2. \A n \in Uints : n \in Nat /\ n < Limit(4)
  BY Limits DEF Uints
<1>3. l \in Uints
  <2>1. NoLimit \in Uints
    <3>1. Limit(4) \in Nat /\ r.ns \in Nat /\ r.ns < Limit(4)
      BY <1>1, <1>2, Limits
    <3> QED BY <3>1 DEF NoLimit, Uints
  <2> QED BY <1>1, <2>1
<1>4. d = FlattenSeq(ws)
  BY <1>1 DEF Body, Packed
<1> HIDE DEF d, l
<1>5. ws \in Seq(Seq(Nat)) /\ d \in Seq(Nat)
  <2>1. \A n \in Uints : LE(n, 4) \in Seq(Nat)
    BY <1>2, LEIs
  <2>2. PackTuples(r.keys) \in Seq(Nat)
    <3>1. <<>> \in Seq(Nat)
      OBVIOUS
    <3> QED BY <1>1, <3>1, TuplesRead
  <2>3. ws \in Seq(Seq(Nat))
    BY <1>1, <1>3, <2>1, <2>2
  <2> HIDE DEF ws
  <2> QED BY <1>4, <2>3, StartsHave
<1>6. \A n \in Uints : Reads(U4(d), LE(n, 4), n, d)
  BY <1>2, <1>5, UintsRead
<1>7. Reads(Tuples(d), PackTuples(r.keys), r.keys, d)
  BY <1>1, <1>5, TuplesRead
<1>8. \A i \in 1..Len(vs) : Reads(takes[i], ws[i], vs[i], d)
  <2> TAKE i \in 1..Len(vs)
  <2>1. CASE i = 1
    BY <1>1, <1>6, <2>1
  <2>2. CASE i = 2
    BY <1>1, <1>6, <2>2
  <2>3. CASE i = 3
    BY <1>1, <1>6, <2>3
  <2>4. CASE i = 4
    BY <1>3, <1>6, <2>4
  <2>5. CASE i = 5
    BY <1>7, <2>5
  <2> QED BY <2>1, <2>2, <2>3, <2>4, <2>5
<1>9. vs \in Seq(V) /\ Len(takes) = Len(vs) /\ Len(ws) = Len(vs)
  OBVIOUS
<1>10. takes = Layout("select", d)
  BY DEF Layout
<1>11. Request("select", vs) = [r EXCEPT !.limit = IF @ = NoLimit THEN 0 ELSE @]
  <2>1. Request("select", vs) =
          [kind |-> "select", ns |-> r.ns, index |-> r.index, offset |-> r.offset,
           limit |-> IF l = NoLimit THEN 0 ELSE l, keys |-> r.keys]
    BY DEF Request
  <2>2. (IF l = NoLimit THEN 0 ELSE l) = IF r.limit = NoLimit THEN 0 ELSE r.limit
    BY DEF l
  <2> HIDE DEF vs
  <2> QED BY <1>1, <2>1, <2>2
<1> HIDE DEF vs, ws, takes, V
<1>12. TakeEach(takes, 0) = Took(vs, Len(d))
  BY <1>4, <1>5, <1>8, <1>9, PartsRead
<1>13. ReadRequest("select", d) = [ok |-> TRUE, r |-> Request("select", vs)]
  <2> DEFINE e == Len(d)
             kind == "select"
  <2>1. TakeEach(Layout(kind, d), 0) = Took(vs, e) /\ kind # "update" /\ kind # "lua"
    BY <1>10, <1>12
  <2> HIDE DEF e, kind
  <2>2. ReadRequest(kind, d) = [ok |-> TRUE, r |-> Request(kind, vs)]
    BY <2>1, ReadsOne
  <2> QED BY <2>2 DEF kind
<1> QED BY <1>1, <1>5, <1>11, <1>13 DEF d

\* A list of three with one more.
LEMMA OneAppended ==
    ASSUME NEW S, NEW b \in Seq(S), NEW u \in S
    PROVE  /\ Append(b, u) \in Seq(S) /\ Len(Append(b, u)) = Len(b) + 1
           /\ \A i \in 1..Len(b) : Append(b, u)[i] = b[i]
           /\ Append(b, u)[Len(b) + 1] = u
  OBVIOUS

\* An update is read as it was, with or without operations.
LEMMA UpdateRead ==
    ASSUME NEW r \in Updates
    PROVE  Body(r) \in Seq(Nat) /\ ReadRequest(r.kind, Body(r)) = [ok |-> TRUE, r |-> r]
<1> DEFINE x == LE(r.ns, 4)
           y == LE(Flags(0), 4)
           z == PackTuple(r.key)
           u == PackOps(r.ops)
           d == Body(r)
<1>1. /\ r.kind = "update" /\ r.ns \in Uints /\ r.key \in Lists(Fields) /\ r.ops \in Lists(Changes)
      /\ r = [kind |-> "update", ns |-> r.ns, key |-> r.key, ops |-> r.ops]
  BY DEF Updates
<1>2. r.ns \in Nat /\ r.ns < Limit(4) /\ Flags(0) \in Nat /\ Flags(0) < Limit(4)
  <2>1. 0 \in 0..2
    OBVIOUS
  <2> QED BY <1>1, <2>1, FlagsIs, Limits DEF Uints
<1>3. x \in Seq(Nat) /\ y \in Seq(Nat) /\ z \in Seq(Nat) /\ u \in Seq(Nat)
  <2>1. \A n \in Nat : LE(n, 4) \in Seq(Nat)
    BY LEIs
  <2>2. x \in Seq(Nat) /\ y \in Seq(Nat)
    BY <1>2, <2>1
  <2>3. z \in Seq(Nat) /\ u \in Seq(Nat)
    <3>1. <<>> \in Seq(Nat)
      OBVIOUS
    <3> QED BY <1>1, <3>1, TupleReads, OpsRead
  <2> QED BY <2>2, <2>3
<1> DEFINE b == <<x, y, z>>
           ws == Append(b, u)
<1>4. /\ b \in Seq(Seq(Nat)) /\ Len(b) = 3 /\ b[1] = x /\ b[2] = y /\ b[3] = z
      /\ b \o <<>> = b
  <2> HIDE DEF x, y, z, u
  <2>1. b \in Seq(Seq(Nat))
    BY <1>3
  <2>2. Len(b) = 3 /\ b[1] = x /\ b[2] = y /\ b[3] = z
    OBVIOUS
  <2> HIDE DEF b
  <2>3. b \o <<>> = b
    BY <2>1, ConcatEmptySeq
  <2> QED BY <2>1, <2>2, <2>3
<1>5. d = FlattenSeq(IF r.ops = <<>> THEN b ELSE ws)
  <2>1. Packed(r) = b \o IF r.ops = <<>> THEN <<>> ELSE <<u>>
    BY <1>1 DEF Packed
  <2>2. b \o <<u>> = ws
    <3> HIDE DEF b, u
    <3>1. b \in Seq(Seq(Nat)) /\ u \in Seq(Nat)
      BY <1>3, <1>4
    <3> QED BY <3>1, AppendIsConcat
  <2> HIDE DEF b, u, ws
  <2> QED BY <1>4, <2>1, <2>2 DEF Body
<1>11. /\ ws \in Seq(Seq(Nat)) /\ Len(ws) = 4 /\ ws[1] = x /\ ws[2] = y /\ ws[3] = z /\ ws[4] = u
       /\ ws = Append(b, u)
  <2> DEFINE S == Seq(Nat)
  <2>1. b \in Seq(S) /\ u \in S /\ Len(b) = 3 /\ ws = Append(b, u)
    BY <1>3, <1>4
  <2> HIDE DEF b, u, S, ws
  <2>2. ws \in Seq(S) /\ Len(ws) = 4 /\ ws[1] = b[1] /\ ws[2] = b[2] /\ ws[3] = b[3] /\ ws[4] = u
    <3>1. /\ Append(b, u) \in Seq(S) /\ Len(Append(b, u)) = Len(b) + 1
          /\ \A i \in 1..Len(b) : Append(b, u)[i] = b[i]
          /\ Append(b, u)[Len(b) + 1] = u
      BY <2>1, OneAppended
    <3>2. /\ ws \in Seq(S) /\ Len(ws) = 3 + 1 /\ \A i \in 1..3 : ws[i] = b[i]
      BY <2>1, <3>1, Zenon
    <3>3. ws[3 + 1] = u
      BY <2>1, <3>1, Zenon
    <3>4. 3 + 1 = 4 /\ 1 \in 1..3 /\ 2 \in 1..3 /\ 3 \in 1..3
      OBVIOUS
    <3> QED BY <3>2, <3>3, <3>4, Zenon
  <2> QED BY <1>4, <2>1, <2>2 DEF S
<1> HIDE DEF d, ws
<1>6. d \in Seq(Nat)
  <2> HIDE DEF b
  <2>1. FlattenSeq(b) \in Seq(Nat) /\ FlattenSeq(ws) \in Seq(Nat)
    BY <1>4, <1>11, StartsHave
  <2> QED BY <1>5, <2>1
<1>7. /\ Reads(U4(d), x, r.ns, d) /\ Reads(U4(d), y, Flags(0), d)
      /\ Reads(Tuple(d), z, r.key, d) /\ Reads(Ops(d), u, r.ops, d)
  BY <1>1, <1>2, <1>6, UintsRead, TupleReads, OpsRead
<1>8. Layout("delete", d) = <<U4(d), U4(d), Tuple(d)>> /\ Layout("update", d) = <<U4(d), U4(d), Tuple(d), Ops(d)>>
  BY DEF Layout
<1> HIDE DEF x, y, z
<1> DEFINE key == <<r.ns, Flags(0), r.key>>
           vs == <<r.ns, Flags(0), r.key, r.ops>>
<1>9. CASE r.ops = <<>>
  <2>1. TakeEach(Layout("delete", d), 0) = Took(key, Len(d))
    <3>1. d = FlattenSeq(<<x, y, z>>)
      BY <1>5, <1>9
    <3>2. TakeEach(<<U4(d), U4(d), Tuple(d)>>, 0) = Took(<<r.ns, Flags(0), r.key>>, Len(d))
      BY <1>3, <1>7, <3>1, ThreeParts
    <3> QED BY <1>8, <3>2
  <2>2. Request("update", key) = r
    <3>1. Len(key) = 3 /\ key[1] = r.ns /\ key[3] = r.key
      OBVIOUS
    <3> HIDE DEF key
    <3> QED BY <1>1, <1>9, <3>1 DEF Request
  <2> HIDE DEF key
  <2>3. ReadRequest("update", d) = [ok |-> TRUE, r |-> Request("update", key)]
    BY <2>1, ReadsUpdate
  <2> QED BY <1>1, <1>6, <2>2, <2>3 DEF d
<1>10. CASE r.ops # <<>>
  <2> DEFINE takes == <<U4(d), U4(d), Tuple(d), Ops(d)>>
             V == {r.ns, Flags(0), r.key, r.ops}
  <2>1. d = FlattenSeq(ws)
    BY <1>5, <1>10
  <2>2. \A i \in 1..Len(vs) : Reads(takes[i], ws[i], vs[i], d)
    <3> HIDE DEF u, b
    <3> TAKE i \in 1..Len(vs)
    <3>1. CASE i = 1
      BY <1>7, <1>11, <3>1
    <3>2. CASE i = 2
      BY <1>7, <1>11, <3>2
    <3>3. CASE i = 3
      BY <1>7, <1>11, <3>3
    <3>4. CASE i = 4
      BY <1>7, <1>11, <3>4
    <3> QED BY <3>1, <3>2, <3>3, <3>4
  <2>3. vs \in Seq(V) /\ Len(takes) = Len(vs) /\ Len(ws) = Len(vs) /\ takes = Layout("update", d)
    BY <1>8, <1>11
  <2>4. Request("update", vs) = r
    <3>1. Len(vs) = 4 /\ vs[1] = r.ns /\ vs[3] = r.key /\ vs[4] = r.ops
      OBVIOUS
    <3> HIDE DEF vs
    <3> QED BY <1>1, <3>1 DEF Request
  <2>5. ws = Append(b, u) /\ b \in Seq(Seq(Nat)) /\ ws \in Seq(Seq(Nat))
    BY <1>4, <1>11
  <2>6. FlattenSeq(b) \in Seq(Nat) /\ d = FlattenSeq(b) \o u /\ u \in Seq(Nat)
    <3> HIDE DEF b, ws, u
    <3> QED BY <1>3, <2>1, <2>5, FlattenAppend
  <2>7. Len(u) >= 4
    <3> DEFINE v == [i \in DOMAIN r.ops |-> PackOp(r.ops[i])]
    <3>1. v \in Seq(Seq(Nat)) /\ Len(v) \in Nat
      <4>1. r.ops \in Seq(Changes) /\ Len(r.ops) \in Nat
        BY <1>1, ListIs
      <4>2. \A i \in 1..Len(r.ops) : PackOp(r.ops[i]) \in Seq(Nat)
        <5>1. <<>> \in Seq(Nat)
          OBVIOUS
        <5>2. \A i \in 1..Len(r.ops) : r.ops[i] \in Changes
          <6> HIDE DEF u
          <6> DEFINE C == Changes
          <6> HIDE DEF C
          <6>1. r.ops \in Seq(C)
            BY <4>1 DEF C
          <6>2. \A i \in 1..Len(r.ops) : r.ops[i] \in C
            BY <6>1
          <6> QED BY <6>2 DEF C
        <5> QED BY <5>1, <5>2, OpReads
      <4>3. DOMAIN r.ops = 1..Len(r.ops)
        BY <4>1
      <4> QED BY <4>1, <4>2, <4>3
    <3>2. u = LE(Len(v), 4) \o FlattenSeq(v)
      BY DEF PackOps, PackCounted
    <3> HIDE DEF v, u
    <3> DEFINE n == Len(v)
               a == LE(n, 4)
               c == FlattenSeq(v)
    <3>3. a \in Seq(Nat) /\ Len(a) = 4 /\ c \in Seq(Nat)
      <4>1. n \in Nat /\ 4 \in Nat
        BY <3>1
      <4> HIDE DEF n
      <4> QED BY <3>1, <4>1, LEIs, StartsHave
    <3> HIDE DEF a, c
    <3>4. Len(a \o c) = Len(a) + Len(c) /\ Len(c) \in Nat
      BY <3>3, Join, Zenon
    <3>5. Len(u) = Len(a) + Len(c) /\ Len(c) \in Nat
      BY <3>2, <3>4, Zenon DEF a, c, n
    <3> QED BY <3>3, <3>5
  <2>8. TakeEach(Layout("delete", d), 0) = Took(key, Len(FlattenSeq(b)))
    <3> DEFINE p == 0
    <3>1. p \in Nat /\ At(d, p, FlattenSeq(b))
      <4> HIDE DEF b, u
      <4> QED BY <2>6, AtWhole
    <3>2. p + Len(FlattenSeq(b)) = Len(FlattenSeq(b))
      BY <2>6
    <3> HIDE DEF p, u
    <3>3. TakeEach(<<U4(d), U4(d), Tuple(d)>>, p) = Took(<<r.ns, Flags(0), r.key>>, p + Len(FlattenSeq(<<x, y, z>>)))
      BY <1>3, <1>6, <1>7, <3>1, ThreeRead
    <3> QED BY <1>8, <3>2, <3>3 DEF p
  <2>9. Len(FlattenSeq(b)) # Len(d)
    <3> DEFINE e == FlattenSeq(b)
    <3> HIDE DEF b, u
    <3> HIDE DEF e
    <3>1. Len(e \o u) = Len(e) + Len(u) /\ Len(e) \in Nat /\ Len(u) \in Nat
      BY <2>6, Join, Zenon DEF e
    <3>2. Len(d) = Len(e) + Len(u)
      BY <2>6, <3>1, Zenon DEF e
    <3>3. Len(d) # Len(e)
      BY <2>7, <3>1, <3>2
    <3> QED BY <3>3 DEF e
  <2> HIDE DEF vs, key, ws, takes, V, b, u
  <2>10. TakeEach(takes, 0) = Took(vs, Len(d))
    <3>1. ws \in Seq(Seq(Nat)) /\ vs \in Seq(V) /\ Len(takes) = Len(vs) /\ Len(ws) = Len(vs)
      BY <2>3, <2>5
    <3> QED BY <2>1, <2>2, <3>1, PartsRead
  <2>11. ReadRequest("update", d) = [ok |-> TRUE, r |-> Request("update", vs)]
    <3> DEFINE e == Len(FlattenSeq(b))
    <3>1. TakeEach(Layout("delete", d), 0) = Took(key, e) /\ e # Len(d)
      BY <2>8, <2>9
    <3>2. TakeEach(Layout("update", d), 0) = Took(vs, Len(d))
      BY <2>3, <2>10
    <3> HIDE DEF e
    <3> QED BY <3>1, <3>2, ReadsUpdate
  <2> QED BY <1>1, <1>6, <2>4, <2>11 DEF d
<1> QED BY <1>9, <1>10

-----------------------------------------------------------------------------
(* The capacity of the buffer of a request *)

\* What begins lower and grows by less in each step stays lower.
LEMMA StaysBelow ==
    ASSUME NEW n \in Nat, NEW g \in [0..n -> Nat], NEW h \in [0..n -> Nat], g[0] <= h[0],
           \A i \in 1..n : g[i] + h[i - 1] <= h[i] + g[i - 1]
    PROVE  \A i \in 0..n : g[i] <= h[i]
<1> DEFINE Bad == {i \in 0..n : ~(g[i] <= h[i])}
<1>1. SUFFICES ASSUME Bad # {} PROVE FALSE
  OBVIOUS
<1>2. PICK x \in Bad : \A y \in Bad : x <= y
  <2>1. Bad \in SUBSET Nat
    OBVIOUS
  <2> HIDE DEF Bad
  <2> QED BY <1>1, <2>1, Least
<1>3. x \in 1..n /\ x - 1 \in 0..n /\ x \in 0..n /\ ~(x <= x - 1)
  BY <1>2
<1>4. g[x - 1] <= h[x - 1] /\ g[x - 1] \in Nat /\ h[x - 1] \in Nat /\ g[x] \in Nat /\ h[x] \in Nat
  BY <1>2, <1>3
<1>5. g[x] + h[x - 1] <= h[x] + g[x - 1] /\ ~(g[x] <= h[x])
  BY <1>2, <1>3
<1> QED BY <1>4, <1>5

\* The sums of a list of numbers exist.
Sums(lens, e, g) ==
    /\ g \in [0..Len(lens) -> Nat] /\ g[0] = e
    /\ \A i \in 1..Len(lens) : g[i] = g[i - 1] + lens[i]

\* The partial sums exist.
LEMMA SumsHave ==
    ASSUME NEW lens \in Seq(Nat), NEW e \in Nat
    PROVE  \E g : Sums(lens, e, g)
<1> DEFINE n == Len(lens)
           step == [i \in 1..n |-> [x \in Nat |-> x + lens[i]]]
<1>1. n \in Nat /\ \A i \in 1..n : lens[i] \in Nat
  OBVIOUS
<1>2. Steps(Nat, n, step)
  BY <1>1 DEF Steps
<1>3. PICK g : Solution(Nat, n, e, step, g)
  <2> HIDE DEF n, step
  <2> QED BY <1>1, <1>2, Recursion, Zenon
<1>4. g \in [0..n -> Nat] /\ g[0] = e /\ \A i \in 1..n : g[i] = step[i][g[i - 1]]
  BY <1>3 DEF Solution
<1>5. \A i \in 1..n : g[i] = g[i - 1] + lens[i]
  <2>1. \A i \in 1..n : g[i - 1] \in Nat
    <3>1. \A i \in 1..n : i - 1 \in 0..n
      BY <1>1, Indices
    <3> HIDE DEF n
    <3> QED BY <1>4, <3>1
  <2>2. \A i \in 1..n : \A x \in Nat : step[i][x] = x + lens[i]
    OBVIOUS
  <2> HIDE DEF step, n
  <2> QED BY <1>4, <2>1, <2>2
<1> QED BY <1>4, <1>5 DEF Sums

\* Total is the last of the sums from four on.
LEMMA TotalIs ==
    ASSUME NEW lens \in Seq(Nat), NEW f, Sums(lens, 4, f)
    PROVE  Total(lens) = f[Len(lens)]
<1> DEFINE n == Len(lens)
           Eq(h) == h = [i \in 0..n |-> IF i = 0 THEN 4 ELSE h[i - 1] + lens[i]]
           t == CHOOSE h : Eq(h)
<1>1. /\ n \in Nat /\ f \in [0..n -> Nat] /\ f[0] = 4
      /\ \A i \in 1..n : f[i] = f[i - 1] + lens[i]
  BY DEF Sums
<1>2. Total(lens) = t[n]
  BY Zenon DEF Total, t, Eq, n
<1>3. Eq(f)
  <2>1. \A i \in 0..n : f[i] = IF i = 0 THEN 4 ELSE f[i - 1] + lens[i]
    <3> HIDE DEF n
    <3> QED BY <1>1
  <2>2. f = [i \in 0..n |-> f[i]]
    BY <1>1
  <2> QED BY <2>1, <2>2
<1>4. Eq(t)
  <2> HIDE DEF Eq
  <2> QED BY <1>3, Zenon
<1> HIDE DEF t
<1>5. Agree(f, t, 0) /\ AgreeOn(f, t, 0, n)
  <2> HIDE DEF n
  <2> QED BY <1>1, <1>4 DEF Agree, AgreeOn
<1>6. f[n] = t[n]
  <2> DEFINE m == 0
  <2>1. m \in Nat /\ n \in Nat /\ m <= n /\ Agree(f, t, m) /\ AgreeOn(f, t, m, n)
    BY <1>1, <1>5
  <2> HIDE DEF m, n
  <2>2. Agree(f, t, n)
    BY <2>1, SameFrom, Zenon
  <2> QED BY <2>2 DEF Agree
<1> QED BY <1>2, <1>6

\* A list of strings takes no more than the total of what is said of each.
LEMMA TotalHolds ==
    ASSUME NEW ws \in Seq(Seq(Nat)), NEW lens \in Seq(Nat), Long(ws, lens),
           \A i \in 1..Len(ws) : Len(ws[i]) <= lens[i]
    PROVE  /\ PackCounted(ws) \in Seq(Nat) /\ Total(lens) \in Nat
           /\ 4 <= Total(lens) /\ Len(PackCounted(ws)) <= Total(lens)
<1> DEFINE n == Len(ws)
<1>1. PICK c : Starts(ws, c)
  BY StartsHave
<1>2. PICK h : Sums(lens, 4, h)
  <2> DEFINE e == 4
  <2>1. e \in Nat
    OBVIOUS
  <2> HIDE DEF e
  <2>2. \E h : Sums(lens, e, h)
    BY <2>1, SumsHave
  <2> QED BY <2>2 DEF e
<1>3. Total(lens) = h[n]
  BY <1>2, TotalIs DEF Long
<1>4. /\ n \in Nat /\ Len(lens) = n /\ \A i \in 1..n : ws[i] \in Seq(Nat) /\ Len(ws[i]) \in Nat
  BY DEF Long
<1>5. /\ c \in [0..n -> Nat] /\ c[0] = 0 /\ c[n] = Len(FlattenSeq(ws))
      /\ \A i \in 1..n : c[i] = c[i - 1] + Len(ws[i])
  BY <1>1 DEF Starts
<1>6. h \in [0..n -> Nat] /\ h[0] = 4 /\ \A i \in 1..n : h[i] = h[i - 1] + lens[i]
  BY <1>2, <1>4 DEF Sums
<1>7. \A i \in 1..n : lens[i] \in Nat /\ Len(ws[i]) <= lens[i]
  BY <1>4
<1> HIDE DEF n
<1> DEFINE g == [i \in 0..n |-> 4 + c[i]]
           k == [i \in 0..n |-> 4]
<1>8. 0 \in 0..n /\ n \in 0..n /\ \A i \in 1..n : i \in 0..n /\ i - 1 \in 0..n
  BY <1>4, Indices
<1>9. g \in [0..n -> Nat] /\ g[0] <= h[0] /\ \A i \in 1..n : g[i] + h[i - 1] <= h[i] + g[i - 1]
  <2>1. ASSUME NEW i \in 1..n PROVE g[i] + h[i - 1] <= h[i] + g[i - 1]
    <3>1. c[i - 1] \in Nat /\ h[i - 1] \in Nat /\ lens[i] \in Nat /\ Len(ws[i]) \in Nat
      BY <1>4, <1>5, <1>6, <1>7, <1>8
    <3>2. g[i] = 4 + (c[i - 1] + Len(ws[i])) /\ g[i - 1] = 4 + c[i - 1] /\ h[i] = h[i - 1] + lens[i]
      BY <1>5, <1>6, <1>8
    <3>3. Len(ws[i]) <= lens[i]
      BY <1>7
    <3> DEFINE a == c[i - 1]
               b == h[i - 1]
               u == lens[i]
               v == Len(ws[i])
    <3> HIDE DEF g, a, b, u, v
    <3>4. g[i] = 4 + (a + v) /\ g[i - 1] = 4 + a /\ h[i] = b + u /\ h[i - 1] = b
      BY <3>2 DEF a, b, u, v
    <3>5. a \in Nat /\ b \in Nat /\ u \in Nat /\ v \in Nat /\ v <= u
      BY <3>1, <3>3, Zenon DEF a, b, u, v
    <3>6. (4 + (a + v)) + b <= (b + u) + (4 + a)
      BY <3>5
    <3> QED BY <3>4, <3>6
  <2>2. g \in [0..n -> Nat]
    BY <1>5
  <2>3. g[0] <= h[0]
    BY <1>5, <1>6, <1>8
  <2> HIDE DEF g
  <2> QED BY <2>1, <2>2, <2>3
<1>10. k \in [0..n -> Nat] /\ k[0] <= h[0] /\ \A i \in 1..n : k[i] + h[i - 1] <= h[i] + k[i - 1]
  <2>1. ASSUME NEW i \in 1..n PROVE k[i] + h[i - 1] <= h[i] + k[i - 1]
    <3>1. h[i - 1] \in Nat /\ lens[i] \in Nat
      BY <1>6, <1>7, <1>8
    <3>2. k[i] = 4 /\ k[i - 1] = 4 /\ h[i] = h[i - 1] + lens[i]
      BY <1>6, <1>8
    <3> HIDE DEF k
    <3> QED BY <3>1, <3>2
  <2> QED BY <1>6, <1>8, <2>1
<1>11. g[n] <= h[n] /\ g[n] = 4 + c[n] /\ k[n] <= h[n] /\ k[n] = 4 /\ h[n] \in Nat /\ c[n] \in Nat
  <2>1. g[n] = 4 + c[n] /\ k[n] = 4 /\ h[n] \in Nat /\ c[n] \in Nat
    BY <1>5, <1>6, <1>8
  <2> HIDE DEF g, k
  <2>2. \A i \in 0..n : g[i] <= h[i]
    BY <1>4, <1>6, <1>9, StaysBelow
  <2>3. \A i \in 0..n : k[i] <= h[i]
    BY <1>4, <1>6, <1>10, StaysBelow
  <2> QED BY <1>8, <2>1, <2>2, <2>3
<1> HIDE DEF g, k
<1> DEFINE x == LE(n, 4)
           y == FlattenSeq(ws)
<1>12. PackCounted(ws) = x \o y
  BY DEF PackCounted, n
<1>13. x \in Seq(Nat) /\ Len(x) = 4 /\ y \in Seq(Nat)
  <2>1. 4 \in Nat
    OBVIOUS
  <2> QED BY <1>4, <2>1, LEIs, StartsHave
<1>14. Len(y) = c[n]
  BY <1>5
<1> HIDE DEF x, y
<1> DEFINE a == x \o y
<1>15. a \in Seq(Nat) /\ Len(a) = Len(x) + Len(y)
  BY <1>13, Join, Zenon
<1>16. PackCounted(ws) = a
  BY <1>12
<1> HIDE DEF a
<1> QED BY <1>3, <1>11, <1>13, <1>14, <1>15, <1>16

\* A packed field takes no more than its ByteLen.
LEMMA FieldFits ==
    ASSUME NEW f \in Fields
    PROVE  PackField(f) \in Seq(Nat) /\ ByteLen(Len(f)) \in Nat /\ Len(PackField(f)) <= ByteLen(Len(f))
<1> DEFINE l == Len(f)
           T == {5} \cup {n \in 1..4 : l < Power(Radix, n)}
<1>1. f \in Seq(Nat) /\ l \in Nat /\ l < Limit(4)
  BY ListIs DEF Fields
<1>2. \E m \in T : \A y \in T : m <= y
  <2>1. T \in SUBSET Nat /\ T # {}
    OBVIOUS
  <2> HIDE DEF T
  <2> QED BY <2>1, Least
<1>3. Min(T) \in T
  <2> HIDE DEF T
  <2> QED BY <1>2 DEF Min
<1> DEFINE m == Min(T)
<1>4. m \in 1..5 /\ (m = 5 \/ l < Power(Radix, m))
  BY <1>3
<1>5. ByteLen(l) = l + m
  BY DEF ByteLen
<1> HIDE DEF T, m, l
<1>6. PICK n \in 1..5 : /\ Grouped(l, n, BER(l))
                        /\ \A j \in 1..5 : l < Power(Radix, j) => n <= j
  BY <1>1, BERIs
<1>7. n <= m
  BY <1>4, <1>6
<1> DEFINE x == BER(l)
<1>8. x \in Seq(Nat) /\ Len(x) = n
  BY <1>6 DEF Grouped
<1>9. PackField(f) = x \o f
  BY DEF PackField, PackBytes, PackUint, l
<1> HIDE DEF x
<1> DEFINE a == x \o f
<1>10. a \in Seq(Nat) /\ Len(a) = Len(x) + Len(f)
  BY <1>1, <1>8, Join, Zenon
<1> HIDE DEF a
<1>11. a \in Seq(Nat) /\ l + m \in Nat /\ Len(a) <= l + m
  BY <1>1, <1>4, <1>7, <1>8, <1>10 DEF l
<1> QED BY <1>5, <1>9, <1>11 DEF a, l

\* A tuple or key takes no more than its PackedTupleLen,
LEMMA TupleFits ==
    ASSUME NEW t \in Lists(Fields)
    PROVE  /\ PackTuple(t) \in Seq(Nat) /\ PackedTupleLen(t) \in Nat
           /\ Len(PackTuple(t)) <= PackedTupleLen(t)
<1> DEFINE V == Fields
           ws == [i \in DOMAIN t |-> PackField(t[i])]
           lens == [i \in DOMAIN t |-> ByteLen(Len(t[i]))]
<1>1. t \in Seq(V) /\ DOMAIN t = 1..Len(t) /\ Len(t) \in Nat
  BY ListIs
<1>2. \A i \in 1..Len(t) : /\ PackField(t[i]) \in Seq(Nat) /\ ByteLen(Len(t[i])) \in Nat
                           /\ Len(PackField(t[i])) <= ByteLen(Len(t[i]))
  <2> TAKE i \in 1..Len(t)
  <2>1. t[i] \in V
    <3> HIDE DEF V
    <3> QED BY <1>1
  <2> QED BY <2>1, FieldFits
<1>3. /\ ws \in Seq(Seq(Nat)) /\ lens \in Seq(Nat) /\ Len(ws) = Len(t) /\ Len(lens) = Len(t)
      /\ \A i \in 1..Len(ws) : Len(ws[i]) <= lens[i]
  BY <1>1, <1>2
<1>4. PackTuple(t) = PackCounted(ws) /\ PackedTupleLen(t) = Total(lens)
  BY DEF PackTuple, PackedTupleLen
<1> HIDE DEF ws, lens, V
<1> QED BY <1>3, <1>4, TotalHolds DEF Long

\* a list of keys than its PackedTuplesLen,
LEMMA TuplesFit ==
    ASSUME NEW ts \in Lists(Lists(Fields))
    PROVE  /\ PackTuples(ts) \in Seq(Nat) /\ PackedTuplesLen(ts) \in Nat
           /\ Len(PackTuples(ts)) <= PackedTuplesLen(ts)
<1> DEFINE V == Lists(Fields)
           ws == [i \in DOMAIN ts |-> PackTuple(ts[i])]
           lens == [i \in DOMAIN ts |-> PackedTupleLen(ts[i])]
<1>1. ts \in Seq(V) /\ DOMAIN ts = 1..Len(ts) /\ Len(ts) \in Nat
  <2> HIDE DEF V
  <2>1. ts \in Lists(V)
    BY DEF V
  <2> QED BY <2>1, ListIs
<1>2. \A i \in 1..Len(ts) : /\ PackTuple(ts[i]) \in Seq(Nat) /\ PackedTupleLen(ts[i]) \in Nat
                            /\ Len(PackTuple(ts[i])) <= PackedTupleLen(ts[i])
  <2> TAKE i \in 1..Len(ts)
  <2>1. ts[i] \in V
    <3> HIDE DEF V
    <3> QED BY <1>1
  <2> QED BY <2>1, TupleFits
<1>3. /\ ws \in Seq(Seq(Nat)) /\ lens \in Seq(Nat) /\ Len(ws) = Len(ts) /\ Len(lens) = Len(ts)
      /\ \A i \in 1..Len(ws) : Len(ws[i]) <= lens[i]
  BY <1>1, <1>2
<1>4. PackTuples(ts) = PackCounted(ws) /\ PackedTuplesLen(ts) = Total(lens)
  BY DEF PackTuples, PackedTuplesLen
<1> HIDE DEF ws, lens, V
<1> QED BY <1>3, <1>4, TotalHolds DEF Long

\* and the operations of an update than their PackedOpsLen.
LEMMA OpFits ==
    ASSUME NEW o \in Changes
    PROVE  /\ PackOp(o) \in Seq(Nat) /\ 4 + 1 + ByteLen(Len(o[3])) \in Nat
           /\ Len(PackOp(o)) <= 4 + 1 + ByteLen(Len(o[3]))
<1> DEFINE x == LE(o[1], 4)
           y == LE(o[2], 1)
           z == PackField(o[3])
<1>1. o[1] \in Nat /\ o[2] \in Nat /\ o[3] \in Fields
  BY Limits, Radices DEF Changes, Uints, Octets
<1>2. /\ x \in Seq(Nat) /\ Len(x) = 4 /\ y \in Seq(Nat) /\ Len(y) = 1 /\ z \in Seq(Nat)
      /\ ByteLen(Len(o[3])) \in Nat /\ Len(z) <= ByteLen(Len(o[3]))
  <2>1. 4 \in Nat /\ 1 \in Nat
    OBVIOUS
  <2> QED BY <1>1, <2>1, LEIs, FieldFits
<1> DEFINE ws == <<x, y, z>>
<1>3. PackOp(o) = FlattenSeq(ws)
  BY DEF PackOp
<1> HIDE DEF x, y, z
<1>4. ws \in Seq(Seq(Nat)) /\ Len(ws) = 3 /\ ws[1] = x /\ ws[2] = y /\ ws[3] = z
  BY <1>2
<1> HIDE DEF ws
<1>5. PICK c : Starts(ws, c) /\ FlattenSeq(ws) \in Seq(Nat)
  BY <1>4, StartsHave
<1>6. /\ c[0] = 0 /\ c[3] = Len(FlattenSeq(ws)) /\ c[1] = c[0] + 4 /\ c[2] = c[1] + 1
      /\ c[3] = c[2] + Len(z)
  <2>1. /\ c[0] = 0 /\ c[3] = Len(FlattenSeq(ws)) /\ \A i \in 1..3 : c[i] = c[i - 1] + Len(ws[i])
    BY <1>4, <1>5 DEF Starts
  <2>2. 1 \in 1..3 /\ 2 \in 1..3 /\ 3 \in 1..3 /\ 1 - 1 = 0 /\ 2 - 1 = 1 /\ 3 - 1 = 2
    OBVIOUS
  <2> QED BY <1>2, <1>4, <2>1, <2>2
<1>7. Len(z) \in Nat
  BY <1>2
<1> QED BY <1>2, <1>3, <1>5, <1>6, <1>7

\* Operations take no more than the length counted for them.
LEMMA OpsFit ==
    ASSUME NEW os \in Lists(Changes)
    PROVE  /\ PackOps(os) \in Seq(Nat) /\ PackedOpsLen(os) \in Nat
           /\ Len(PackOps(os)) <= PackedOpsLen(os)
<1> DEFINE V == Changes
           ws == [i \in DOMAIN os |-> PackOp(os[i])]
           lens == [i \in DOMAIN os |-> 4 + 1 + ByteLen(Len(os[i][3]))]
<1>1. os \in Seq(V) /\ DOMAIN os = 1..Len(os) /\ Len(os) \in Nat
  <2> HIDE DEF V
  <2>1. os \in Lists(V)
    BY DEF V
  <2> QED BY <2>1, ListIs
<1>2. \A i \in 1..Len(os) : /\ PackOp(os[i]) \in Seq(Nat) /\ 4 + 1 + ByteLen(Len(os[i][3])) \in Nat
                            /\ Len(PackOp(os[i])) <= 4 + 1 + ByteLen(Len(os[i][3]))
  <2> TAKE i \in 1..Len(os)
  <2>1. os[i] \in V
    <3> HIDE DEF V
    <3> QED BY <1>1
  <2> QED BY <2>1, OpFits
<1>3. /\ ws \in Seq(Seq(Nat)) /\ lens \in Seq(Nat) /\ Len(ws) = Len(os) /\ Len(lens) = Len(os)
      /\ \A i \in 1..Len(ws) : Len(ws[i]) <= lens[i]
  BY <1>1, <1>2
<1>4. PackOps(os) = PackCounted(ws) /\ PackedOpsLen(os) = Total(lens)
  BY DEF PackOps, PackedOpsLen
<1> HIDE DEF ws, lens, V
<1> QED BY <1>3, <1>4, TotalHolds DEF Long

\* The body of a request is no longer than the capacity of its buffer.
LEMMA CapacityHolds ==
    ASSUME NEW r \in Inserts \cup Selects \cup Updates \cup Deletes
    PROVE  Len(Body(r)) <= Capacity(r)
<1>0. ASSUME NEW ws \in Seq(Seq(Nat)), Len(ws) = 3, Len(ws[1]) = 4, Len(ws[2]) = 4,
             NEW k \in Nat, Len(ws[3]) <= k
      PROVE  /\ FlattenSeq(ws) \in Seq(Nat) /\ Len(FlattenSeq(ws)) <= 8 + k
             /\ Len(FlattenSeq(ws)) \in Nat
  <2>1. PICK c : Starts(ws, c) /\ FlattenSeq(ws) \in Seq(Nat)
    BY StartsHave
  <2>2. /\ c[0] = 0 /\ c[3] = Len(FlattenSeq(ws)) /\ \A i \in 1..3 : c[i] = c[i - 1] + Len(ws[i])
    BY <1>0, <2>1 DEF Starts
  <2>3. 1 \in 1..3 /\ 2 \in 1..3 /\ 3 \in 1..3 /\ 1 - 1 = 0 /\ 2 - 1 = 1 /\ 3 - 1 = 2
    OBVIOUS
  <2>4. c[1] = c[0] + 4 /\ c[2] = c[1] + 4 /\ c[3] = c[2] + Len(ws[3])
    BY <1>0, <2>2, <2>3
  <2>5. Len(ws[3]) \in Nat
    BY <1>0
  <2> DEFINE l == Len(ws[3])
             m == Len(FlattenSeq(ws))
  <2>6. l \in Nat /\ l <= k /\ m = c[3] /\ c[3] = c[2] + l
    BY <1>0, <2>2, <2>4, <2>5
  <2> HIDE DEF l, m
  <2>7. m <= 8 + k /\ m \in Nat
    BY <1>0, <2>2, <2>4, <2>6
  <2> QED BY <2>1, <2>7 DEF m
<1>1. \A n \in Nat : LE(n, 4) \in Seq(Nat) /\ Len(LE(n, 4)) = 4
  <2>1. 4 \in Nat
    OBVIOUS
  <2> QED BY <2>1, LEIs
<1>2. \A n \in Uints : n \in Nat /\ n < Limit(4)
  BY Limits DEF Uints
<1>3. \A mode \in 0..2 : Flags(mode) \in Nat
  BY FlagsIs
<1>4. CASE r \in Inserts
  <2> DEFINE x == LE(r.ns, 4)
             y == LE(Flags(r.mode), 4)
             z == PackTuple(r.tuple)
             ws == <<x, y, z>>
             k == PackedTupleLen(r.tuple)
  <2>1. r.kind = "insert" /\ r.ns \in Uints /\ r.mode \in 0..2 /\ r.tuple \in Lists(Fields)
    BY <1>4 DEF Inserts
  <2>2. /\ x \in Seq(Nat) /\ Len(x) = 4 /\ y \in Seq(Nat) /\ Len(y) = 4
        /\ z \in Seq(Nat) /\ k \in Nat /\ Len(z) <= k
    BY <1>1, <1>2, <1>3, <2>1, TupleFits
  <2>3. Body(r) = FlattenSeq(ws) /\ Capacity(r) = 12 + k
    BY <2>1 DEF Body, Packed, Capacity
  <2> HIDE DEF x, y, z, k
  <2>4. ws \in Seq(Seq(Nat)) /\ Len(ws) = 3 /\ Len(ws[1]) = 4 /\ Len(ws[2]) = 4 /\ Len(ws[3]) <= k
    BY <2>2
  <2> HIDE DEF ws
  <2>5. Len(FlattenSeq(ws)) <= 8 + k /\ Len(FlattenSeq(ws)) \in Nat
    BY <1>0, <2>2, <2>4
  <2> QED BY <2>2, <2>3, <2>5
<1>5. CASE r \in Deletes
  <2> DEFINE x == LE(r.ns, 4)
             y == LE(Flags(0), 4)
             z == PackTuple(r.key)
             ws == <<x, y, z>>
             k == PackedTupleLen(r.key)
  <2>1. r.kind = "delete" /\ r.ns \in Uints /\ 0 \in 0..2 /\ r.key \in Lists(Fields)
    BY <1>5 DEF Deletes
  <2>2. /\ x \in Seq(Nat) /\ Len(x) = 4 /\ y \in Seq(Nat) /\ Len(y) = 4
        /\ z \in Seq(Nat) /\ k \in Nat /\ Len(z) <= k
    BY <1>1, <1>2, <1>3, <2>1, TupleFits
  <2>3. Body(r) = FlattenSeq(ws) /\ Capacity(r) = 8 + k
    BY <2>1 DEF Body, Packed, Capacity
  <2> HIDE DEF x, y, z, k
  <2>4. ws \in Seq(Seq(Nat)) /\ Len(ws) = 3 /\ Len(ws[1]) = 4 /\ Len(ws[2]) = 4 /\ Len(ws[3]) <= k
    BY <2>2
  <2> HIDE DEF ws
  <2>5. Len(FlattenSeq(ws)) <= 8 + k /\ Len(FlattenSeq(ws)) \in Nat
    BY <1>0, <2>2, <2>4
  <2> QED BY <2>2, <2>3, <2>5
<1>6. CASE r \in Updates
  <2> DEFINE x == LE(r.ns, 4)
             y == LE(Flags(0), 4)
             z == PackTuple(r.key)
             u == PackOps(r.ops)
             b == <<x, y, z>>
             k == PackedTupleLen(r.key)
             m == PackedOpsLen(r.ops)
  <2>1. /\ r.kind = "update" /\ r.ns \in Uints /\ 0 \in 0..2 /\ r.key \in Lists(Fields)
        /\ r.ops \in Lists(Changes)
    BY <1>6 DEF Updates
  <2>2. /\ x \in Seq(Nat) /\ Len(x) = 4 /\ y \in Seq(Nat) /\ Len(y) = 4
        /\ z \in Seq(Nat) /\ k \in Nat /\ Len(z) <= k
    BY <1>1, <1>2, <1>3, <2>1, TupleFits
  <2>3. u \in Seq(Nat) /\ m \in Nat /\ Len(u) <= m /\ Len(u) \in Nat
    BY <2>1, OpsFit
  <2>4. Packed(r) = b \o (IF r.ops = <<>> THEN <<>> ELSE <<u>>) /\ Capacity(r) = 8 + k + m
    BY <2>1 DEF Packed, Capacity
  <2> HIDE DEF x, y, z, u, k, m
  <2>5. b \in Seq(Seq(Nat)) /\ Len(b) = 3 /\ Len(b[1]) = 4 /\ Len(b[2]) = 4 /\ Len(b[3]) <= k
    BY <2>2
  <2> HIDE DEF b
  <2> DEFINE e == FlattenSeq(b)
  <2>6. e \in Seq(Nat) /\ Len(e) <= 8 + k /\ Len(e) \in Nat
    BY <1>0, <2>2, <2>5
  <2>7. CASE r.ops = <<>>
    <3>1. Body(r) = e
      <4>1. b \o <<>> = b
        BY <2>5, ConcatEmptySeq
      <4> QED BY <2>4, <2>7, <4>1 DEF Body
    <3> HIDE DEF e
    <3> QED BY <2>2, <2>3, <2>4, <2>6, <3>1
  <2>8. CASE r.ops # <<>>
    <3>1. Body(r) = e \o u
      <4>1. b \o <<u>> = Append(b, u)
        BY <2>3, <2>5, AppendIsConcat
      <4>2. FlattenSeq(Append(b, u)) = FlattenSeq(b) \o u
        BY <2>3, <2>5, FlattenAppend
      <4>3. Body(r) = FlattenSeq(b \o <<u>>)
        BY <2>4, <2>8 DEF Body
      <4> QED BY <4>1, <4>2, <4>3, Zenon
    <3> HIDE DEF e
    <3> DEFINE a == e \o u
    <3>2. a \in Seq(Nat) /\ Len(a) = Len(e) + Len(u)
      BY <2>3, <2>6, Join, Zenon
    <3>3. Body(r) = a
      BY <3>1, Zenon
    <3> HIDE DEF a
    <3> QED BY <2>2, <2>3, <2>4, <2>6, <3>2, <3>3
  <2> QED BY <2>7, <2>8
<1>7. CASE r \in Selects
  <2> DEFINE l == IF r.limit = 0 THEN NoLimit ELSE r.limit
             x == LE(r.ns, 4)
             y == LE(r.index, 4)
             z == LE(r.offset, 4)
             u == LE(l, 4)
             ks == PackTuples(r.keys)
             ws == <<x, y, z, u, ks>>
             k == PackedTuplesLen(r.keys)
  <2>1. /\ r.kind = "select" /\ r.ns \in Uints /\ r.index \in Uints /\ r.offset \in Uints
        /\ r.limit \in Uints /\ r.keys \in Lists(Lists(Fields))
    BY <1>7 DEF Selects
  <2>2. l \in Nat
    <3>1. Limit(4) \in Nat /\ r.ns < Limit(4) /\ r.ns \in Nat
      BY <1>2, <2>1, Limits
    <3> QED BY <1>2, <2>1, <3>1 DEF NoLimit
  <2>3. /\ x \in Seq(Nat) /\ Len(x) = 4 /\ y \in Seq(Nat) /\ Len(y) = 4
        /\ z \in Seq(Nat) /\ Len(z) = 4 /\ u \in Seq(Nat) /\ Len(u) = 4
    <3> HIDE DEF l
    <3> QED BY <1>1, <1>2, <2>1, <2>2
  <2>4. ks \in Seq(Nat) /\ k \in Nat /\ Len(ks) <= k
    BY <2>1, TuplesFit
  <2>5. Body(r) = FlattenSeq(ws) /\ Capacity(r) = 16 + k
    BY <2>1 DEF Body, Packed, Capacity
  <2> HIDE DEF l, x, y, z, u, ks, k
  <2>6. /\ ws \in Seq(Seq(Nat)) /\ Len(ws) = 5 /\ ws[1] = x /\ ws[2] = y /\ ws[3] = z /\ ws[4] = u
        /\ ws[5] = ks
    BY <2>3, <2>4
  <2> HIDE DEF ws
  <2>7. PICK c : Starts(ws, c) /\ FlattenSeq(ws) \in Seq(Nat)
    BY <2>6, StartsHave
  <2>8. /\ c[0] = 0 /\ c[5] = Len(FlattenSeq(ws)) /\ \A i \in 1..5 : c[i] = c[i - 1] + Len(ws[i])
    BY <2>6, <2>7 DEF Starts
  <2>9. /\ 1 \in 1..5 /\ 2 \in 1..5 /\ 3 \in 1..5 /\ 4 \in 1..5 /\ 5 \in 1..5
        /\ 1 - 1 = 0 /\ 2 - 1 = 1 /\ 3 - 1 = 2 /\ 4 - 1 = 3 /\ 5 - 1 = 4
    OBVIOUS
  <2>10. /\ c[1] = c[0] + 4 /\ c[2] = c[1] + 4 /\ c[3] = c[2] + 4 /\ c[4] = c[3] + 4
         /\ c[5] = c[4] + Len(ks)
    BY <2>3, <2>6, <2>8, <2>9
  <2>11. Len(ks) \in Nat
    BY <2>4
  <2> DEFINE m == Len(FlattenSeq(ws))
  <2>12. m = c[5] /\ Body(r) = FlattenSeq(ws)
    BY <2>5, <2>8
  <2> HIDE DEF m
  <2>13. m <= 16 + k
    BY <2>4, <2>8, <2>10, <2>11, <2>12
  <2> QED BY <2>5, <2>13 DEF m
<1> QED BY <1>4, <1>5, <1>6, <1>7

-----------------------------------------------------------------------------
(* Responses *)

\* What RespFields has found, and its step.
Got(v, p, total) == [ok |-> TRUE, v |-> v, p |-> p, total |-> total]
OneField(size, d, s) ==
    IF ~s.ok THEN Fail ELSE
    LET l     == TakeBER(4, d, s.p)
        total == (s.total + l.v) % Limit(4)
    IN  IF ~l.ok \/ total > size \/ l.p + l.v > Len(d) THEN Fail
        ELSE [ok |-> TRUE, v |-> Append(s.v, SubSeq(d, l.p + 1, l.p + l.v)),
              p |-> l.p + l.v, total |-> total]

\* RespFields is what its steps lead to.
LEMMA RespFieldsIs ==
    ASSUME NEW n \in Nat, NEW size, NEW d, NEW p, NEW f, f[0] = Got(<<>>, p, 0),
           \A i \in 1..n : f[i] = OneField(size, d, f[i - 1])
    PROVE  RespFields(n, size, d, p) = f[n]
<1> DEFINE Eq(s) == s = [i \in 0..n |->
            IF i = 0 THEN [ok |-> TRUE, v |-> << >>, p |-> p, total |-> 0]
            ELSE IF ~s[i - 1].ok THEN Fail ELSE
            LET l     == TakeBER(4, d, s[i - 1].p)
                total == (s[i - 1].total + l.v) % Limit(4)
            IN  IF ~l.ok \/ total > size \/ l.p + l.v > Len(d) THEN Fail
                ELSE [ok |-> TRUE, v |-> Append(s[i - 1].v, SubSeq(d, l.p + 1, l.p + l.v)),
                      p |-> l.p + l.v, total |-> total]]
           s == CHOOSE h : Eq(h)
           u == [i \in 0..n |-> f[i]]
<1>2. RespFields(n, size, d, p) = s[n]
  BY Zenon DEF RespFields, s, Eq
<1>3. \A h : Eq(h) <=> h = [i \in 0..n |-> IF i = 0 THEN Got(<<>>, p, 0) ELSE OneField(size, d, h[i - 1])]
  BY Zenon DEF OneField, Got
<1> HIDE DEF Eq
<1>5. Eq(u)
  <2>1. \A i \in 0..n : u[i] = f[i]
    OBVIOUS
  <2>2. \A i \in 0..n : i # 0 => i - 1 \in 0..n
    OBVIOUS
  <2>3. \A i \in 0..n : u[i] = IF i = 0 THEN Got(<<>>, p, 0) ELSE OneField(size, d, u[i - 1])
    <3> TAKE i \in 0..n
    <3>1. CASE i = 0
      BY <2>1, <3>1
    <3>2. CASE i # 0
      <4>1. i \in 1..n /\ u[i - 1] = f[i - 1] /\ u[i] = f[i]
        BY <2>1, <2>2, <3>2
      <4> HIDE DEF u
      <4> QED BY <3>2, <4>1
    <3> QED BY <3>1, <3>2
  <2>4. u = [i \in 0..n |-> u[i]]
    OBVIOUS
  <2> HIDE DEF u
  <2>5. u = [i \in 0..n |-> IF i = 0 THEN Got(<<>>, p, 0) ELSE OneField(size, d, u[i - 1])]
    BY <2>3, <2>4
  <2> QED BY <1>3, <2>5
<1>6. Eq(s)
  <2> HIDE DEF u
  <2> QED BY <1>5, Zenon
<1> HIDE DEF s
<1>7. \A i \in 0..n : s[i] = IF i = 0 THEN Got(<<>>, p, 0) ELSE OneField(size, d, s[i - 1])
  <2>1. s = [i \in 0..n |-> IF i = 0 THEN Got(<<>>, p, 0) ELSE OneField(size, d, s[i - 1])]
    BY <1>3, <1>6
  <2> QED BY <2>1
<1>8. s[n] = f[n]
  <2>1. Agree(f, s, 0) /\ AgreeOn(f, s, 0, n)
    <3>1. \A i \in 1..n : i \in 0..n /\ i # 0 /\ 0 \in 0..n
      OBVIOUS
    <3>2. s[0] = f[0]
      <4>1. 0 \in 0..n
        OBVIOUS
      <4> QED BY <1>7, <4>1
    <3>3. \A i \in 1..n : s[i] = OneField(size, d, s[i - 1])
      BY <1>7, <3>1
    <3>4. \A i \in 0 + 1..n : i \in 1..n
      OBVIOUS
    <3> QED BY <3>2, <3>3, <3>4, Zenon DEF Agree, AgreeOn
  <2> DEFINE m == 0
  <2>2. m \in Nat /\ n \in Nat /\ m <= n /\ Agree(f, s, m) /\ AgreeOn(f, s, m, n)
    BY <2>1
  <2> HIDE DEF m, u
  <2>3. Agree(f, s, n)
    BY <2>2, SameFrom, Zenon
  <2> QED BY <2>3 DEF Agree
<1> QED BY <1>2, <1>8

\* A field behind its length is one step, as long as the total fits.
LEMMA OneFieldIs ==
    ASSUME NEW d \in Seq(Nat), NEW q \in Nat, NEW x \in Fields, At(d, q, PackField(x)),
           NEW v, NEW total \in Nat, NEW size \in Nat, total + Len(x) <= size, size < Limit(4)
    PROVE  /\ OneField(size, d, Got(v, q, total)) =
                Got(Append(v, x), q + Len(PackField(x)), total + Len(x))
           /\ Len(x) <= Len(PackField(x)) /\ PackField(x) \in Seq(Nat)
<1> DEFINE n == Len(x)
           b == BER(n)
           e == q + Len(b)
<1>1. x \in Seq(Nat) /\ n \in Nat /\ n < Limit(4) /\ Limit(4) \in Nat
  BY ListIs, Limits DEF Fields
<1>2. b \in Seq(Nat) /\ Len(b) \in Nat /\ PackField(x) = b \o x
  <2> HIDE DEF n
  <2>1. b \in Seq(Nat)
    BY <1>1, BERIs DEF Grouped
  <2>2. PackField(x) = b \o x
    BY DEF PackField, PackBytes, PackUint, n
  <2> HIDE DEF b
  <2> QED BY <2>1, <2>2
<1> HIDE DEF b
<1>3. At(d, q, b) /\ At(d, e, x)
  BY <1>1, <1>2, AtJoin
<1>4. TakeBER(4, d, q) = Took(n, e)
  <2> HIDE DEF n
  <2> QED BY <1>1, <1>3, BERReads DEF b
<1>5. SubSeq(d, e + 1, e + n) = x /\ e + n <= Len(d) /\ e \in Nat
  <2>1. e \in Nat
    BY <1>2
  <2> HIDE DEF e
  <2>2. SubSeq(d, e + 1, e + Len(x)) = x
    BY <1>1, <1>3, <2>1, AtCut
  <2>3. e + Len(x) <= Len(d)
    BY <1>3 DEF At
  <2> QED BY <2>1, <2>2, <2>3
<1>6. (total + n) % Limit(4) = total + n /\ ~(total + n > size)
  <2> DEFINE z == total + n
             l == Limit(4)
  <2>1. l \in Nat \ {0} /\ z \in 0..l - 1 /\ ~(z > size)
    BY <1>1
  <2> HIDE DEF z, l
  <2>2. z % l = z
    BY <2>1, Remainder
  <2> QED BY <2>1, <2>2 DEF z, l
<1>7. PackField(x) \in Seq(Nat) /\ Len(PackField(x)) = Len(b) + n
  <2> DEFINE a == b \o x
  <2>1. a \in Seq(Nat) /\ Len(a) = Len(b) + n
    BY <1>1, <1>2, Join, Zenon
  <2> QED BY <1>2, <2>1, Zenon
<1>8. e + n = q + Len(PackField(x))
  BY <1>1, <1>2, <1>7
<1> HIDE DEF n, e
<1> DEFINE s == Got(v, q, total)
<1>9. s.ok = TRUE /\ s.p = q /\ s.total = total /\ s.v = v
  BY DEF Got
<1> DEFINE l == TakeBER(4, d, q)
<1>10. l.ok = TRUE /\ l.v = n /\ l.p = e
  <2> HIDE DEF l
  <2>1. l = Took(n, e)
    BY <1>4 DEF l
  <2> QED BY <2>1 DEF Took
<1>11. OneField(size, d, s) =
         IF ~s.ok THEN Fail
         ELSE IF ~l.ok \/ (s.total + l.v) % Limit(4) > size \/ l.p + l.v > Len(d) THEN Fail
         ELSE [ok |-> TRUE, v |-> Append(s.v, SubSeq(d, l.p + 1, l.p + l.v)),
               p |-> l.p + l.v, total |-> (s.total + l.v) % Limit(4)]
  BY <1>9, Zenon DEF OneField
<1> HIDE DEF l, s
<1>12. OneField(size, d, s) = Got(Append(v, x), e + n, total + n)
  <2>1. ~(e + n > Len(d))
    BY <1>1, <1>5
  <2>2. OneField(size, d, s) =
         IF (total + n) % Limit(4) > size \/ e + n > Len(d) THEN Fail
         ELSE [ok |-> TRUE, v |-> Append(v, SubSeq(d, e + 1, e + n)),
               p |-> e + n, total |-> (total + n) % Limit(4)]
    BY <1>9, <1>10, <1>11
  <2>3. OneField(size, d, s) = [ok |-> TRUE, v |-> Append(v, x), p |-> e + n, total |-> total + n]
    BY <1>5, <1>6, <2>1, <2>2
  <2> QED BY <2>3 DEF Got
<1>13. Len(x) <= Len(PackField(x))
  BY <1>1, <1>2, <1>7 DEF n
<1> QED BY <1>7, <1>8, <1>12, <1>13 DEF s, n

\* The fields of a tuple are found, and no total of theirs exceeds its size.
LEMMA FieldsTaken ==
    ASSUME NEW d \in Seq(Nat), NEW p \in Nat, NEW t \in Lists(Fields), NEW ws \in Seq(Seq(Nat)),
           ws = [i \in DOMAIN t |-> PackField(t[i])], At(d, p, FlattenSeq(ws)),
           NEW size \in Nat, Len(FlattenSeq(ws)) <= size, size < Limit(4)
    PROVE  \E total : RespFields(Len(t), size, d, p) = Got(t, p + Len(FlattenSeq(ws)), total)
<1> DEFINE V == Fields
           n == Len(t)
           lens == [i \in DOMAIN t |-> Len(t[i])]
           y == FlattenSeq(ws)
<1>1. t \in Seq(V) /\ DOMAIN t = 1..n /\ n \in Nat /\ Len(ws) = n
  BY ListIs
<1>2. \A i \in 1..n : t[i] \in Fields /\ ws[i] = PackField(t[i]) /\ ws[i] \in Seq(Nat)
  <2>1. \A i \in 1..n : t[i] \in V
    <3> HIDE DEF V, n
    <3> QED BY <1>1 DEF n
  <2> QED BY <1>1, <2>1
<1>3. \A i \in 1..n : Len(t[i]) \in Nat /\ Len(t[i]) <= Len(ws[i]) /\ Len(ws[i]) \in Nat
  <2> TAKE i \in 1..n
  <2> DEFINE x == t[i]
  <2>1. x \in Fields /\ ws[i] = PackField(x) /\ ws[i] \in Seq(Nat)
    BY <1>2
  <2> HIDE DEF x
  <2> DEFINE b == BER(Len(x))
  <2>2. x \in Seq(Nat) /\ Len(x) \in Nat /\ Len(x) < Limit(4)
    BY <2>1, ListIs DEF Fields
  <2>3. b \in Seq(Nat) /\ Len(b) \in Nat /\ ws[i] = b \o x
    <3> DEFINE l == Len(x)
    <3> HIDE DEF l
    <3>1. BER(l) \in Seq(Nat)
      BY <2>2, BERIs DEF Grouped, l
    <3>2. PackField(x) = BER(l) \o x
      BY DEF PackField, PackBytes, PackUint, l
    <3>3. Len(BER(l)) \in Nat
      BY <3>1
    <3> QED BY <2>1, <3>1, <3>2, <3>3, Zenon DEF l
  <2> HIDE DEF b
  <2>4. Len(ws[i]) = Len(b) + Len(x)
    BY <2>2, <2>3, Join, Zenon
  <2> QED BY <2>2, <2>3, <2>4 DEF x
<1>4. lens \in Seq(Nat) /\ Len(lens) = n /\ \A i \in 1..n : lens[i] = Len(t[i])
  BY <1>1, <1>3
<1>5. PICK g : Sums(lens, 0, g)
  <2> DEFINE e == 0
  <2>1. e \in Nat
    OBVIOUS
  <2> HIDE DEF e, lens
  <2>2. \E g : Sums(lens, e, g)
    BY <1>4, <2>1, SumsHave
  <2> QED BY <2>2 DEF e
<1>6. PICK c : Starts(ws, c) /\ y \in Seq(Nat)
  BY StartsHave
<1> HIDE DEF lens, V
<1>7. g \in [0..n -> Nat] /\ g[0] = 0 /\ \A i \in 1..n : g[i] = g[i - 1] + Len(t[i])
  <2> HIDE DEF n
  <2> QED BY <1>4, <1>5 DEF Sums
<1>8. /\ c \in [0..n -> Nat] /\ c[0] = 0 /\ c[n] = Len(y)
      /\ \A i \in 1..n : c[i] = c[i - 1] + Len(ws[i])
      /\ \A i \in 1..n : At(y, c[i - 1], ws[i])
  <2> HIDE DEF n
  <2> QED BY <1>1, <1>6 DEF Starts
<1>9. At(d, p, y) /\ Len(y) <= size
  OBVIOUS
<1> HIDE DEF y
<1>10. 0 \in 0..n /\ n \in 0..n /\ \A i \in 1..n : i \in 0..n /\ i - 1 \in 0..n
  BY <1>1, Indices
<1>11. \A i \in 1..n : g[i - 1] \in Nat /\ g[i] \in Nat /\ c[i - 1] \in Nat /\ c[i] \in Nat
  <2> HIDE DEF n
  <2> QED BY <1>7, <1>8, <1>10
<1>12. \A i \in 0..n : g[i] <= c[i]
  <2>1. g[0] <= c[0]
    BY <1>7, <1>8
  <2>2. ASSUME NEW i \in 1..n PROVE g[i] + c[i - 1] <= c[i] + g[i - 1]
    <3> DEFINE a == g[i - 1]
               b == c[i - 1]
               k == Len(t[i])
               l == Len(ws[i])
    <3>1. a \in Nat /\ b \in Nat /\ k \in Nat /\ l \in Nat /\ k <= l
      BY <1>3, <1>11
    <3>2. g[i] = a + k /\ c[i] = b + l
      BY <1>7, <1>8, Zenon
    <3> HIDE DEF a, b, k, l
    <3>3. g[i] + b <= c[i] + a
      BY <3>1, <3>2
    <3> QED BY <3>3 DEF a, b
  <2> HIDE DEF n
  <2> QED BY <1>1, <1>7, <1>8, <2>1, <2>2, StaysBelow
<1>13. \A i \in 1..n : c[i] <= Len(y)
  <2> TAKE i \in 1..n
  <2>1. c[i - 1] + Len(ws[i]) <= Len(y)
    <3> HIDE DEF n
    <3> QED BY <1>8 DEF At
  <2> HIDE DEF n
  <2> QED BY <1>8, <2>1
<1>14. Len(y) \in Nat
  BY <1>6
<1>15. \A i \in 1..n : g[i] <= size
  <2> TAKE i \in 1..n
  <2>1. g[i] \in Nat /\ c[i] \in Nat /\ g[i] <= c[i] /\ c[i] <= Len(y)
    BY <1>10, <1>11, <1>12, <1>13, Zenon
  <2> QED BY <1>9, <1>14, <2>1
<1> DEFINE f == [i \in 0..n |-> Got(SubSeq(t, 1, i), p + c[i], g[i])]
<1>16. f[0] = Got(<<>>, p, 0) /\ f[n] = Got(t, p + Len(y), g[n])
  <2>1. SubSeq(t, 1, 0) = <<>> /\ SubSeq(t, 1, n) = t
    BY <1>1
  <2>2. p + c[0] = p
    BY <1>8
  <2> HIDE DEF n
  <2> QED BY <1>7, <1>8, <1>10, <2>1, <2>2
<1>17. ASSUME NEW i \in 1..n PROVE f[i] = OneField(size, d, f[i - 1])
  <2> DEFINE q == p + c[i - 1]
             x == t[i]
             total == g[i - 1]
             v == SubSeq(t, 1, i - 1)
  <2>1. f[i - 1] = Got(v, q, total) /\ f[i] = Got(SubSeq(t, 1, i), p + c[i], g[i])
    <3> HIDE DEF n
    <3> QED BY <1>10
  <2>2. q \in Nat /\ total \in Nat /\ x \in Fields /\ total + Len(x) = g[i]
    <3>1. c[i - 1] \in Nat /\ g[i - 1] \in Nat /\ t[i] \in Fields /\ g[i] = g[i - 1] + Len(t[i])
      BY <1>2, <1>7, <1>11, Zenon
    <3> DEFINE r == c[i - 1]
    <3>2. r \in Nat
      BY <3>1
    <3> HIDE DEF r, f
    <3>3. p + r \in Nat
      BY <3>2
    <3>4. q \in Nat
      BY <3>3 DEF r
    <3> QED BY <3>1, <3>4, Zenon
  <2>3. At(d, q, PackField(x))
    <3> DEFINE r == c[i - 1]
               k == ws[i]
    <3>1. At(y, r, k) /\ r \in Nat /\ k \in Seq(Nat) /\ k = PackField(x) /\ y \in Seq(Nat)
      <4> HIDE DEF n
      <4> QED BY <1>2, <1>6, <1>8, <1>11
    <3> HIDE DEF r, k, x
    <3>2. At(d, p + r, k)
      BY <1>9, <3>1, AtPart
    <3> QED BY <3>1, <3>2 DEF r
  <2>4. Append(v, x) = SubSeq(t, 1, i)
    BY <1>1
  <2>5. q + Len(PackField(x)) = p + c[i]
    <3>1. c[i] = c[i - 1] + Len(PackField(x)) /\ c[i - 1] \in Nat /\ Len(PackField(x)) \in Nat
      <4> HIDE DEF n
      <4> QED BY <1>2, <1>3, <1>8, <1>11
    <3> QED BY <3>1
  <2>6. total + Len(x) <= size
    <3> HIDE DEF total, x, n
    <3> QED BY <1>15, <2>2
  <2> HIDE DEF f, q, x, total, v, n
  <2>7. OneField(size, d, Got(v, q, total)) = Got(Append(v, x), q + Len(PackField(x)), total + Len(x))
    BY <2>2, <2>3, <2>6, OneFieldIs
  <2> QED BY <2>1, <2>2, <2>4, <2>5, <2>7
<1> HIDE DEF f, n
<1>18. RespFields(n, size, d, p) = f[n]
  BY <1>1, <1>16, <1>17, RespFieldsIs
<1>19. RespFields(n, size, d, p) = Got(t, p + Len(y), g[n])
  BY <1>16, <1>18
<1> QED BY <1>19 DEF n, y

\* The parts of a tuple behind its size.
LEMMA SizedIs ==
    ASSUME NEW t \in Rows
    PROVE  \E ws \in Seq(Seq(Nat)) :
              /\ ws = [i \in DOMAIN t |-> PackField(t[i])]
              /\ FlattenSeq(ws) \in Seq(Nat)
              /\ PackTuple(t) \in Seq(Nat) /\ PackTuple(t) = LE(Len(t), 4) \o FlattenSeq(ws)
              /\ Len(PackTuple(t)) = 4 + Len(FlattenSeq(ws))
              /\ PackSized(t) \in Seq(Nat) /\ Len(PackSized(t)) = 4 + Len(PackTuple(t))
<1> DEFINE V == Fields
           ws == [i \in DOMAIN t |-> PackField(t[i])]
           n == Len(t)
<1>1. t \in Lists(Fields) /\ t \in Seq(V) /\ DOMAIN t = 1..n /\ n \in Nat
  BY ListIs DEF Rows
<1>2. \A i \in 1..n : PackField(t[i]) \in Seq(Nat)
  <2> TAKE i \in 1..n
  <2>1. t[i] \in V
    <3> HIDE DEF V
    <3> QED BY <1>1
  <2> QED BY <2>1, FieldFits
<1>3. ws \in Seq(Seq(Nat))
  BY <1>1, <1>2
<1>4. PackTuple(t) = LE(Len(ws), 4) \o FlattenSeq(ws) /\ Len(ws) = n
  BY <1>1, <1>3 DEF PackTuple, PackCounted
<1> HIDE DEF ws, n
<1> DEFINE x == LE(n, 4)
           y == FlattenSeq(ws)
           a == PackTuple(t)
           l == Len(a)
           b == LE(l, 4)
<1>5. x \in Seq(Nat) /\ Len(x) = 4 /\ y \in Seq(Nat)
  <2>1. 4 \in Nat
    OBVIOUS
  <2> QED BY <1>1, <1>3, <2>1, LEIs, StartsHave
<1>6. a = x \o y
  BY <1>4
<1>7. PackSized(t) = b \o a
  BY DEF PackSized
<1> HIDE DEF x, y
<1>8. x \o y \in Seq(Nat) /\ Len(x \o y) = 4 + Len(y)
  <2>1. x \o y \in Seq(Nat) /\ Len(x \o y) = Len(x) + Len(y)
    BY <1>5, Join, Zenon
  <2> QED BY <1>5, <2>1, Zenon
<1> HIDE DEF a
<1>9. a \in Seq(Nat) /\ l = 4 + Len(y) /\ l \in Nat
  BY <1>6, <1>8
<1>10. b \in Seq(Nat) /\ Len(b) = 4
  <2>1. 4 \in Nat
    OBVIOUS
  <2> HIDE DEF l
  <2> QED BY <1>9, <2>1, LEIs
<1> HIDE DEF b
<1>11. b \o a \in Seq(Nat) /\ Len(b \o a) = 4 + l
  <2>1. b \o a \in Seq(Nat) /\ Len(b \o a) = Len(b) + Len(a)
    BY <1>9, <1>10, Join, Zenon
  <2> QED BY <1>10, <2>1, Zenon
<1>12. /\ y \in Seq(Nat) /\ a \in Seq(Nat) /\ a = LE(Len(t), 4) \o y /\ Len(a) = 4 + Len(y)
       /\ PackSized(t) \in Seq(Nat) /\ Len(PackSized(t)) = 4 + Len(a)
  <2>1. PackSized(t) \in Seq(Nat) /\ Len(PackSized(t)) = 4 + l
    BY <1>7, <1>11, Zenon
  <2> QED BY <1>5, <1>6, <1>9, <2>1, Zenon DEF x, n, l
<1> QED BY <1>3, <1>12 DEF y, a, ws

\* RespTuple with its parts named.
RespTupleFrom(d, size, fields, r) ==
    IF ~size.ok \/ Len(d) - size.p < size.v \/ ~fields.ok \/ ~r.ok THEN Fail ELSE Took(r.v, r.p)

\* A tuple is read from its size, its number of fields and its fields.
LEMMA RespTupleIs ==
    ASSUME NEW d \in Seq(Nat), NEW p \in 0..Len(d), NEW size, size = TakeLE(4, d, p),
           NEW fields, fields = TakeLE(4, d, size.p)
    PROVE  RespTuple(d)[p] = RespTupleFrom(d, size, fields, RespFields(fields.v, size.v, d, fields.p))
BY DEF RespTuple, RespTupleFrom

\* A tuple that is there is found.
LEMMA RespTupleReads ==
    ASSUME NEW d \in Seq(Nat), NEW t \in Rows, NEW p \in 0..Len(d), At(d, p, PackSized(t))
    PROVE  RespTuple(d)[p] = Took(t, p + Len(PackSized(t)))
<1>1. PICK ws \in Seq(Seq(Nat)) :
              /\ ws = [i \in DOMAIN t |-> PackField(t[i])]
              /\ FlattenSeq(ws) \in Seq(Nat)
              /\ PackTuple(t) \in Seq(Nat) /\ PackTuple(t) = LE(Len(t), 4) \o FlattenSeq(ws)
              /\ Len(PackTuple(t)) = 4 + Len(FlattenSeq(ws))
              /\ PackSized(t) \in Seq(Nat) /\ Len(PackSized(t)) = 4 + Len(PackTuple(t))
  BY SizedIs
<1> DEFINE a == PackTuple(t)
           l == Len(a)
           b == LE(l, 4)
           n == Len(t)
           x == LE(n, 4)
           y == FlattenSeq(ws)
<1>2. t \in Lists(Fields) /\ n \in Nat /\ n < Limit(4) /\ l \in Nat /\ l < Limit(4) /\ p \in Nat
  BY <1>1, ListIs DEF Rows
<1>3. /\ b \in Seq(Nat) /\ Len(b) = 4 /\ x \in Seq(Nat) /\ Len(x) = 4 /\ 4 \in Nat \ {0}
  <2>1. 4 \in Nat /\ 4 \in Nat \ {0}
    OBVIOUS
  <2> HIDE DEF l, n
  <2>2. \A k \in Nat : LE(k, 4) \in Seq(Nat) /\ Len(LE(k, 4)) = 4
    BY <2>1, LEIs
  <2> QED BY <1>2, <2>1, <2>2, Zenon
<1>4. PackSized(t) = b \o a /\ a = x \o y
  BY <1>1 DEF PackSized
<1>5. /\ a \in Seq(Nat) /\ y \in Seq(Nat) /\ l = 4 + Len(y) /\ Len(PackSized(t)) = 4 + l
  BY <1>1
<1>6. p + 4 \in Nat /\ (p + 4) + 4 \in Nat
  BY <1>2
<1> HIDE DEF a, b, x, y, n, l
<1>7. At(d, p, b) /\ At(d, p + 4, a)
  <2>1. At(d, p, b \o a)
    BY <1>4
  <2>2. At(d, p, b) /\ At(d, p + Len(b), a)
    BY <1>2, <1>3, <1>5, <2>1, AtJoin
  <2> QED BY <1>3, <2>2
<1>8. At(d, p + 4, x) /\ At(d, (p + 4) + 4, y)
  <2>1. At(d, p + 4, x \o y)
    BY <1>4, <1>7
  <2> DEFINE q == p + 4
  <2> HIDE DEF q
  <2>2. At(d, q, x) /\ At(d, q + Len(x), y)
    BY <1>3, <1>5, <1>6, <2>1, AtJoin DEF q
  <2> QED BY <1>3, <2>2 DEF q
<1> DEFINE size == TakeLE(4, d, p)
           fields == TakeLE(4, d, p + 4)
<1>9. size = Took(l, p + 4)
  BY <1>2, <1>3, <1>7, LEReads DEF b
<1>10. fields = Took(n, (p + 4) + 4)
  <2> DEFINE q == p + 4
  <2> HIDE DEF q
  <2>1. TakeLE(4, d, q) = Took(n, q + 4)
    BY <1>2, <1>3, <1>6, <1>8, LEReads DEF x, q
  <2> QED BY <2>1 DEF q
<1> HIDE DEF size, fields
<1>11. size.ok = TRUE /\ size.v = l /\ size.p = p + 4 /\ fields.ok = TRUE /\ fields.v = n /\ fields.p = (p + 4) + 4
  BY <1>9, <1>10 DEF Took
<1> DEFINE r == RespFields(fields.v, size.v, d, fields.p)
<1>12. RespTuple(d)[p] = RespTupleFrom(d, size, fields, r)
  <2>1. size = TakeLE(4, d, p) /\ fields = TakeLE(4, d, size.p)
    BY <1>11 DEF size, fields
  <2> QED BY <2>1, RespTupleIs
<1> DEFINE q == (p + 4) + 4
<1>13. PICK total : r = Got(t, q + Len(y), total)
  <2>1. Len(y) <= l
    BY <1>5
  <2>2. q \in Nat /\ At(d, q, FlattenSeq(ws)) /\ Len(FlattenSeq(ws)) <= l
    BY <1>6, <1>8, <2>1 DEF y
  <2> HIDE DEF q
  <2>3. ws = [i \in DOMAIN t |-> PackField(t[i])]
    BY <1>1
  <2>4. \E total : RespFields(Len(t), l, d, q) = Got(t, q + Len(FlattenSeq(ws)), total)
    BY <1>2, <2>2, <2>3, FieldsTaken
  <2> QED BY <1>11, <2>4 DEF q, y, n
<1> HIDE DEF r
<1>14. r.ok = TRUE /\ r.v = t /\ r.p = q + Len(y)
  <2> HIDE DEF q
  <2> QED BY <1>13 DEF Got
<1>15. ~(Len(d) - size.p < size.v)
  <2>1. (p + 4) + Len(a) <= Len(d)
    BY <1>7 DEF At
  <2>2. Len(a) = l
    BY DEF l
  <2> DEFINE m == Len(d)
  <2>3. m \in Nat /\ (p + 4) + l <= m
    BY <2>1, <2>2
  <2> HIDE DEF m
  <2>4. ~(m - (p + 4) < l)
    BY <1>2, <2>3
  <2> QED BY <1>11, <2>4 DEF m
<1>16. q + Len(y) = p + Len(PackSized(t))
  <2>1. Len(y) \in Nat
    BY <1>5
  <2> QED BY <1>2, <1>5, <2>1
<1> HIDE DEF q
<1>17. RespTupleFrom(d, size, fields, r) = Took(t, q + Len(y))
  BY <1>11, <1>14, <1>15 DEF RespTupleFrom
<1> QED BY <1>12, <1>16, <1>17

\* One that is cut is not, wherever the cut is.
LEMMA RespTupleCut ==
    ASSUME NEW d \in Seq(Nat), NEW z \in Seq(Nat), NEW t \in Rows, NEW p \in 0..Len(d),
           At(d \o z, p, PackSized(t)), Len(d) < p + Len(PackSized(t))
    PROVE  RespTuple(d)[p] = Fail
<1> DEFINE size == TakeLE(4, d, p)
           fields == TakeLE(4, d, size.p)
           r == RespFields(fields.v, size.v, d, fields.p)
           a == PackTuple(t)
           l == Len(a)
           b == LE(l, 4)
<1>1. RespTuple(d)[p] = RespTupleFrom(d, size, fields, r)
  BY RespTupleIs
<1>2. /\ a \in Seq(Nat) /\ l \in Nat /\ l < Limit(4) /\ p \in Nat /\ Len(d) \in Nat
      /\ Len(PackSized(t)) = 4 + l
  BY SizedIs DEF Rows
<1>3. b \in Seq(Nat) /\ Len(b) = 4
  <2>1. 4 \in Nat
    OBVIOUS
  <2> HIDE DEF l
  <2> QED BY <1>2, <2>1, LEIs
<1>4. CASE p + 4 <= Len(d)
  <2>1. At(d \o z, p, b)
    <3> DEFINE e == d \o z
    <3>1. e \in Seq(Nat) /\ At(e, p, b \o a)
      BY DEF PackSized
    <3> HIDE DEF e, a, b
    <3> QED BY <1>2, <1>3, <3>1, AtJoin DEF e
  <2>2. At(d, p, b)
    <3> HIDE DEF b
    <3> QED BY <1>2, <1>3, <1>4, <2>1, AtPrefix
  <2>3. size = Took(l, p + 4)
    <3>1. 4 \in Nat \ {0}
      OBVIOUS
    <3> HIDE DEF l
    <3> QED BY <1>2, <2>2, <3>1, LEReads
  <2> HIDE DEF size, fields, r, l
  <2>4. size.p = p + 4 /\ size.v = l
    BY <2>3 DEF Took
  <2>5. Len(d) - (p + 4) < l
    BY <1>2, <1>4
  <2> QED BY <1>1, <2>4, <2>5 DEF RespTupleFrom
<1>5. CASE ~(p + 4 <= Len(d))
  <2>1. \A k \in Nat : k = Len(d) => TakeLE(4, d, k) = Fail
    BY DEF TakeLE
  <2>2. size.ok => size.p = Len(d)
    <3> DEFINE m == Len(d) - p
               v == CHOOSE v : v = [i \in 0..m |-> IF i = 0 THEN 0 ELSE v[i - 1] * Byte + d[p + m + 1 - i]]
    <3>1. size = Fail \/ \E u : size = Took(u, p + m)
      BY <1>5, Zenon DEF TakeLE
    <3>2. p + m = Len(d)
      BY <1>2
    <3> HIDE DEF m, size
    <3>3. CASE size = Fail
      BY <3>3 DEF Fail
    <3>4. ASSUME NEW u, size = Took(u, p + m) PROVE size.p = Len(d)
      BY <3>2, <3>4 DEF Took
    <3> QED BY <3>1, <3>3, <3>4
  <2>3. size.ok => fields = Fail
    <3> HIDE DEF size
    <3> QED BY <1>2, <2>1, <2>2
  <2> HIDE DEF size, fields, r
  <2>4. ~size.ok \/ ~fields.ok
    BY <2>3 DEF Fail
  <2> QED BY <1>1, <2>4 DEF RespTupleFrom
<1> QED BY <1>4, <1>5

\* The status of a response and the number of its tuples.
LEMMA StatusIs ==
    ASSUME NEW d \in Seq(Nat), At(d, 0, LE(0, 4))
    PROVE  /\ Len(d) = 4 => TakeStatus(d) = Took(0, 4)
           /\ Len(d) \in 5..7 => TakeStatus(d) = Fail
           /\ \A n \in Nat : n < Limit(4) /\ At(d, 4, LE(n, 4)) => TakeStatus(d) = Took(n, 8)
<1> DEFINE code == TakeLE(4, d, 0)
           cnt == TakeLE(4, d, 4)
<1>1. 0 < Limit(4) /\ Limit(4) \in Nat
  <2>1. 0 \in 0..2
    OBVIOUS
  <2>2. Flags(0) \in Nat /\ Flags(0) < Limit(4) /\ Limit(4) \in Nat
    BY <2>1, FlagsIs, Limits
  <2> QED BY <2>2
<1>2. code = Took(0, 4)
  <2>1. 4 \in Nat \ {0} /\ 0 \in Nat /\ 0 + 4 = 4
    OBVIOUS
  <2> QED BY <1>1, <2>1, LEReads
<1> HIDE DEF code
<1>3. code.ok = TRUE /\ code.v = 0 /\ code.p = 4
  BY <1>2 DEF Took
<1>4. TakeStatus(d) = IF ~code.ok \/ code.v # 0 THEN Fail
                      ELSE IF code.p = Len(d) THEN Took(0, code.p)
                      ELSE IF Len(d) - code.p < 4 THEN Fail
                      ELSE TakeLE(4, d, code.p)
  BY Zenon DEF TakeStatus, RcOK, code
<1>5. TakeStatus(d) = IF 4 = Len(d) THEN Took(0, 4)
                      ELSE IF Len(d) - 4 < 4 THEN Fail
                      ELSE cnt
  <2> DEFINE s == TakeStatus(d)
             u == TakeLE(4, d, 4)
  <2> HIDE DEF s, u
  <2>1. s = IF ~code.ok \/ code.v # 0 THEN Fail
                      ELSE IF code.p = Len(d) THEN Took(0, code.p)
                      ELSE IF Len(d) - code.p < 4 THEN Fail
                      ELSE TakeLE(4, d, code.p)
    BY <1>4 DEF s
  <2> QED BY <1>3, <2>1 DEF s
<1>6. ASSUME NEW n \in Nat, n < Limit(4), At(d, 4, LE(n, 4)) PROVE TakeStatus(d) = Took(n, 8)
  <2>1. 4 \in Nat \ {0} /\ 4 \in Nat /\ 4 + 4 = 8
    OBVIOUS
  <2>2. cnt = Took(n, 8)
    BY <1>6, <2>1, LEReads
  <2>3. 4 + Len(LE(n, 4)) <= Len(d) /\ Len(LE(n, 4)) = 4
    BY <1>6, <2>1, LEIs DEF At
  <2> HIDE DEF cnt
  <2> DEFINE m == Len(d)
             k == Len(LE(n, 4))
  <2>4. m \in Nat /\ 4 + k <= m /\ k = 4
    BY <2>3
  <2> HIDE DEF m, k
  <2>5. ~(4 = m) /\ ~(m - 4 < 4)
    BY <2>4
  <2> QED BY <1>5, <2>2, <2>5 DEF m
<1>7. ASSUME Len(d) = 4 PROVE TakeStatus(d) = Took(0, 4)
  BY <1>5, <1>7
<1>8. ASSUME Len(d) \in 5..7 PROVE TakeStatus(d) = Fail
  <2> DEFINE m == Len(d)
  <2>1. m \in 5..7
    BY <1>8
  <2> HIDE DEF m, cnt
  <2>2. ~(4 = m) /\ m - 4 < 4
    BY <2>1
  <2> QED BY <1>5, <2>2 DEF m
<1> QED BY <1>6, <1>7, <1>8

\* What ProcessResp makes of the tuples behind the status.
Each(n, d) == [i \in 1..n |-> RespTuple(d)]

\* What ProcessResp gives, behind a status that is read.
LEMMA ProcessIs ==
    ASSUME NEW d, NEW n, NEW q, TakeStatus(d) = Took(n, q), NEW uniq, NEW need,
           NEW r, r = TakeEach(Each(n, d), q)
    PROVE  ProcessResp(d, uniq, need) =
             IF ~CountFits(n, uniq, need) \/ ~r.ok \/ r.p < Len(d) THEN Fail
             ELSE [ok |-> TRUE, v |-> r.v]
<1> DEFINE m == TakeStatus(d)
           e == TakeEach([i \in 1..m.v |-> RespTuple(d)], m.p)
<1>1. ProcessResp(d, uniq, need) =
        IF ~m.ok \/ ~CountFits(m.v, uniq, need) THEN Fail
        ELSE IF ~e.ok \/ e.p < Len(d) THEN Fail
        ELSE [ok |-> TRUE, v |-> e.v]
  BY Zenon DEF ProcessResp
<1>2. m.ok = TRUE /\ m.v = n /\ m.p = q
  <2> HIDE DEF m
  <2>1. m = Took(n, q)
    BY DEF m
  <2> QED BY <2>1 DEF Took
<1> HIDE DEF m
<1>3. e = r
  BY <1>2 DEF Each
<1> HIDE DEF e
<1> QED BY <1>1, <1>2, <1>3

\* The tuples of a response, packed with their sizes.
Sized(ts) == [i \in DOMAIN ts |-> PackSized(ts[i])]

\* The parts of a response, and where they are.
LEMMA ResponseIs ==
    ASSUME NEW ts \in Lists(Rows)
    PROVE  /\ LE(0, 4) \in Seq(Nat) /\ Len(LE(0, 4)) = 4
           /\ ts = <<>> => PackResponse(RcOK, ts) = LE(0, 4)
           /\ Sized(ts) \in Seq(Seq(Nat)) /\ Len(Sized(ts)) = Len(ts)
           /\ \A i \in 1..Len(ts) : ts[i] \in Rows /\ Sized(ts)[i] = PackSized(ts[i])
           /\ ts # <<>> =>
                LET d == PackResponse(RcOK, ts)
                    y == FlattenSeq(Sized(ts))
                IN  /\ d \in Seq(Nat) /\ y \in Seq(Nat) /\ Len(d) = 8 + Len(y)
                    /\ At(d, 0, LE(0, 4)) /\ At(d, 4, LE(Len(ts), 4)) /\ At(d, 8, y)
<1> DEFINE V == Rows
           n == Len(ts)
           ws == Sized(ts)
           x == LE(0, 4)
           b == LE(n, 4)
           y == FlattenSeq(ws)
<1>1. ts \in Seq(V) /\ DOMAIN ts = 1..n /\ n \in Nat
  BY ListIs
<1>2. \A i \in 1..n : ts[i] \in Rows /\ PackSized(ts[i]) \in Seq(Nat)
  <2> TAKE i \in 1..n
  <2>1. ts[i] \in V
    <3> HIDE DEF V
    <3> QED BY <1>1
  <2> QED BY <2>1, SizedIs
<1>3. ws \in Seq(Seq(Nat)) /\ Len(ws) = n /\ \A i \in 1..n : ws[i] = PackSized(ts[i])
  BY <1>1, <1>2 DEF Sized
<1>4. x \in Seq(Nat) /\ Len(x) = 4 /\ b \in Seq(Nat) /\ Len(b) = 4 /\ y \in Seq(Nat)
  <2>1. 4 \in Nat /\ 0 \in Nat
    OBVIOUS
  <2> HIDE DEF n, ws
  <2> QED BY <1>1, <1>3, <2>1, LEIs, StartsHave
<1>5. PackResponse(RcOK, ts) = IF ts = <<>> THEN x ELSE x \o (b \o y)
  <2>1. PackCounted(ws) = b \o y
    BY <1>3 DEF PackCounted
  <2> HIDE DEF b, y, x
  <2>2. PackResponse(RcOK, ts) = IF ts = <<>> THEN x ELSE x \o PackCounted(ws)
    BY DEF PackResponse, RcOK, Sized, x
  <2> QED BY <2>1, <2>2, Zenon
<1> HIDE DEF b, y, x, ws, n
<1>6. ASSUME NEW d, d = x \o (b \o y)
      PROVE  /\ d \in Seq(Nat) /\ Len(d) = 8 + Len(y)
             /\ At(d, 0, x) /\ At(d, 4, b) /\ At(d, 8, y)
  <2> DEFINE a == b \o y
  <2>1. a \in Seq(Nat) /\ Len(a) = Len(b) + Len(y) /\ Len(y) \in Nat
    BY <1>4, Join, Zenon
  <2>2. x \o a \in Seq(Nat) /\ Len(x \o a) = Len(x) + Len(a) /\ Len(a) \in Nat
    BY <1>4, <2>1, Join, Zenon
  <2>3. At(x \o a, 0, x) /\ At(x \o a, Len(x), a)
    <3> HIDE DEF a
    <3> QED BY <1>4, <2>1, AtWhole
  <2>4. d = x \o a
    BY <1>6
  <2> HIDE DEF a
  <2>5. At(d, 0, x) /\ At(d, 4, a) /\ d \in Seq(Nat) /\ Len(d) = 4 + Len(a)
    BY <1>4, <2>2, <2>3, <2>4, Zenon
  <2>6. At(d, 4, b) /\ At(d, 4 + 4, y)
    <3>1. 4 \in Nat /\ At(d, 4, b \o y)
      BY <2>5 DEF a
    <3>2. At(d, 4, b) /\ At(d, 4 + Len(b), y)
      BY <1>4, <2>5, <3>1, AtJoin
    <3> QED BY <1>4, <3>2, Zenon
  <2>7. 4 + 4 = 8 /\ Len(d) = 8 + Len(y)
    BY <1>4, <2>1, <2>5
  <2> QED BY <2>5, <2>6, <2>7
<1>7. ts # <<>> =>
         /\ PackResponse(RcOK, ts) \in Seq(Nat)
         /\ Len(PackResponse(RcOK, ts)) = 8 + Len(y)
         /\ At(PackResponse(RcOK, ts), 0, x) /\ At(PackResponse(RcOK, ts), 4, b)
         /\ At(PackResponse(RcOK, ts), 8, y)
  BY <1>5, <1>6, Zenon
<1>8. ts = <<>> => PackResponse(RcOK, ts) = x
  BY <1>5
<1> QED BY <1>2, <1>3, <1>4, <1>7, <1>8, Zenon DEF x, b, y, ws, n

\* The client finds the tuples of a response, if it wants that many.
LEMMA ResponseReads ==
    ASSUME NEW ts \in Lists(Rows), NEW uniq, NEW need
    PROVE  ProcessResp(PackResponse(RcOK, ts), uniq, need) =
             IF ~CountFits(Len(ts), uniq, need) THEN Fail ELSE [ok |-> TRUE, v |-> ts]
<1> DEFINE d == PackResponse(RcOK, ts)
           n == Len(ts)
           V == Rows
<1>1. ts \in Seq(V) /\ n \in Nat /\ n < Limit(4)
  BY ListIs
<1>2. CASE ts = <<>>
  <2>1. d = LE(0, 4) /\ d \in Seq(Nat) /\ Len(d) = 4 /\ n = 0
    BY <1>2, ResponseIs
  <2> HIDE DEF d, n
  <2>2. TakeStatus(d) = Took(0, 4)
    BY <2>1, AtWhole, StatusIs
  <2> DEFINE takes == [i \in 1..0 |-> RespTuple(d)]
             f == [i \in 0..0 |-> Took(<<>>, 4)]
             r == TakeEach(takes, 4)
  <2>3. r = Took(<<>>, 4)
    <3>1. Len(takes) = 0 /\ 0 \in Nat
      OBVIOUS
    <3>2. f[0] = Took(<<>>, 4)
      OBVIOUS
    <3> DEFINE p == 4
    <3> HIDE DEF takes, f, p
    <3>3. Len(takes) \in Nat /\ f[0] = Took(<<>>, p) /\ \A i \in 1..Len(takes) : f[i] = OneMore(takes, i, f[i - 1])
      BY <3>1, <3>2 DEF p
    <3>4. TakeEach(takes, p) = f[Len(takes)]
      BY <3>3, EachIs, Zenon
    <3> QED BY <3>1, <3>2, <3>4 DEF p
  <2>4. TakeStatus(d) = Took(0, 4) /\ r = TakeEach(Each(0, d), 4)
    BY <2>2 DEF Each
  <2> HIDE DEF r, takes, f, V
  <2>5. r.ok = TRUE /\ r.v = <<>> /\ r.p = 4
    BY <2>3 DEF Took
  <2>6. ASSUME NEW k, NEW q, TakeStatus(d) = Took(k, q), r = TakeEach(Each(k, d), q)
        PROVE  ProcessResp(d, uniq, need) =
                 IF ~CountFits(k, uniq, need) \/ ~r.ok \/ r.p < Len(d) THEN Fail
                 ELSE [ok |-> TRUE, v |-> r.v]
    BY <2>6, ProcessIs
  <2>8. ~(r.p < Len(d))
    <3> DEFINE m == Len(d)
               l == r.p
    <3>1. m = 4 /\ l = 4
      BY <2>1, <2>5
    <3> HIDE DEF m, l
    <3>2. ~(l < m)
      BY <3>1
    <3> QED BY <3>2 DEF m, l
  <2>7. ProcessResp(d, uniq, need) = IF ~CountFits(0, uniq, need) THEN Fail ELSE [ok |-> TRUE, v |-> <<>>]
    <3>1. ProcessResp(d, uniq, need) =
                 IF ~CountFits(0, uniq, need) \/ ~r.ok \/ r.p < Len(d) THEN Fail
                 ELSE [ok |-> TRUE, v |-> r.v]
      BY <2>4, <2>6, Zenon
    <3> QED BY <2>5, <2>8, <3>1, Zenon
  <2> QED BY <1>2, <2>1, <2>7 DEF d, n
<1>3. CASE ts # <<>>
  <2> DEFINE ws == Sized(ts)
             y == FlattenSeq(ws)
             takes == [i \in 1..n |-> RespTuple(d)]
             r == TakeEach(takes, 8)
  <2>1. /\ d \in Seq(Nat) /\ y \in Seq(Nat) /\ Len(d) = 8 + Len(y)
        /\ At(d, 0, LE(0, 4)) /\ At(d, 4, LE(n, 4)) /\ At(d, 8, y)
        /\ ws \in Seq(Seq(Nat)) /\ Len(ws) = n
        /\ \A i \in 1..n : ts[i] \in Rows /\ ws[i] = PackSized(ts[i])
    BY <1>3, ResponseIs
  <2> HIDE DEF d, n, ws
  <2>2. TakeStatus(d) = Took(n, 8)
    BY <1>1, <2>1, StatusIs
  <2>3. \A i \in 1..n : Reads(takes[i], ws[i], ts[i], d)
    <3> TAKE i \in 1..n
    <3> DEFINE t == ts[i]
    <3>1. t \in Rows /\ ws[i] = PackSized(t)
      BY <2>1
    <3> HIDE DEF t
    <3>2. Reads(RespTuple(d), PackSized(t), t, d)
      BY <2>1, <3>1, RespTupleReads DEF Reads
    <3> QED BY <3>1, <3>2 DEF t
  <2>4. Len(takes) = n
    BY <1>1
  <2> HIDE DEF takes, y, V
  <2>5. r = Took(ts, 8 + Len(y))
    <3> DEFINE p == 8
    <3>1. p \in Nat /\ At(d, p, FlattenSeq(ws))
      BY <2>1 DEF y
    <3>2. \A i \in 1..Len(ts) : Reads(takes[i], ws[i], ts[i], d)
      BY <2>3 DEF n
    <3>3. Len(takes) = Len(ts) /\ Len(ws) = Len(ts)
      BY <2>1, <2>4 DEF n
    <3> HIDE DEF p
    <3>4. TakeEach(takes, p) = Took(ts, p + Len(FlattenSeq(ws)))
      BY <1>1, <2>1, <3>1, <3>2, <3>3, EachReads
    <3> QED BY <3>4 DEF p, y
  <2>6. r.ok = TRUE /\ r.v = ts /\ r.p = Len(d)
    <3> HIDE DEF r
    <3> QED BY <2>1, <2>5 DEF Took
  <2>7. r = TakeEach(Each(n, d), 8)
    BY DEF takes, Each
  <2> HIDE DEF r
  <2>8. ~(r.p < Len(d))
    BY <2>1, <2>6
  <2> DEFINE q == 8
  <2>9. TakeStatus(d) = Took(n, q) /\ r = TakeEach(Each(n, d), q)
    BY <2>2, <2>7
  <2> HIDE DEF q
  <2>10. ProcessResp(d, uniq, need) =
             IF ~CountFits(n, uniq, need) \/ ~r.ok \/ r.p < Len(d) THEN Fail
             ELSE [ok |-> TRUE, v |-> r.v]
    BY <2>9, ProcessIs
  <2> QED BY <2>6, <2>8, <2>10 DEF d, n
<1> QED BY <1>2, <1>3

\* A response without a good status is an error.
LEMMA ProcessFails ==
    ASSUME NEW d, TakeStatus(d) = Fail, NEW uniq, NEW need
    PROVE  ProcessResp(d, uniq, need) = Fail
<1> DEFINE m == TakeStatus(d)
           e == TakeEach([i \in 1..m.v |-> RespTuple(d)], m.p)
<1>1. ProcessResp(d, uniq, need) =
        IF ~m.ok \/ ~CountFits(m.v, uniq, need) THEN Fail
        ELSE IF ~e.ok \/ e.p < Len(d) THEN Fail
        ELSE [ok |-> TRUE, v |-> e.v]
  BY Zenon DEF ProcessResp
<1> HIDE DEF e, m
<1>2. m.ok = FALSE
  BY DEF Fail, m
<1> QED BY <1>1, <1>2

\* The tuples of a response that is cut behind its status and their number: the
\* first that is not all there is not taken.
LEMMA TuplesCut ==
    ASSUME NEW ts \in Lists(Rows), NEW d \in Seq(Nat), NEW z \in Seq(Nat),
           At(d \o z, 8, FlattenSeq(Sized(ts))), 8 <= Len(d),
           Len(d) < 8 + Len(FlattenSeq(Sized(ts)))
    PROVE  TakeEach(Each(Len(ts), d), 8) = Fail
<1> DEFINE ws == Sized(ts)
           y == FlattenSeq(ws)
           n == Len(ts)
           e == d \o z
           l == Len(d)
           V == Rows
           takes == Each(n, d)
<1>1. /\ n \in Nat /\ ts \in Seq(V) /\ ws \in Seq(Seq(Nat)) /\ Len(ws) = n
      /\ \A i \in 1..n : ts[i] \in Rows /\ ws[i] = PackSized(ts[i]) /\ ws[i] \in Seq(Nat)
  <2>1. ts \in Seq(V) /\ n \in Nat
    BY ListIs
  <2>2. ws \in Seq(Seq(Nat)) /\ Len(ws) = n /\ \A i \in 1..n : ts[i] \in Rows /\ ws[i] = PackSized(ts[i])
    BY ResponseIs
  <2> HIDE DEF ws
  <2>3. \A i \in 1..n : ws[i] \in Seq(Nat)
    BY <2>2
  <2> QED BY <2>1, <2>2, <2>3
<1>2. PICK c : Starts(ws, c) /\ y \in Seq(Nat)
  BY <1>1, StartsHave
<1> HIDE DEF ws, n
<1>3. /\ c \in [0..n -> Nat] /\ c[0] = 0 /\ c[n] = Len(y)
      /\ \A i \in 1..n : c[i] = c[i - 1] + Len(ws[i])
      /\ \A i \in 1..n : At(y, c[i - 1], ws[i])
  BY <1>1, <1>2 DEF Starts
<1>4. At(e, 8, y) /\ 8 <= l /\ l < 8 + Len(y) /\ l \in Nat /\ Len(y) \in Nat /\ e \in Seq(Nat)
  <2>1. At(e, 8, y) /\ 8 <= l /\ l < 8 + Len(y)
    BY DEF ws
  <2> QED BY <1>2, <2>1
<1> HIDE DEF y, e
<1>5. 0 \in 0..n /\ n \in 0..n /\ \A i \in 1..n : i \in 0..n /\ i - 1 \in 0..n
  BY <1>1, Indices
<1> DEFINE b == [i \in 0..n |-> 8 + c[i]]
<1>6. /\ b \in [0..n -> Nat] /\ b[0] = 8 /\ b[n] = 8 + Len(y)
  <2>1. b \in [0..n -> Nat]
    BY <1>3
  <2>2. b[0] = 8 + c[0] /\ b[n] = 8 + c[n]
    BY <1>5
  <2> HIDE DEF b
  <2> QED BY <1>3, <2>1, <2>2
<1>7. ASSUME NEW i \in 1..n
      PROVE  /\ b[i] = b[i - 1] + Len(ws[i]) /\ At(e, b[i - 1], ws[i])
             /\ b[i - 1] \in Nat /\ Len(ws[i]) \in Nat
  <2> DEFINE k == c[i - 1]
             m == Len(ws[i])
  <2>1. k \in Nat /\ m \in Nat /\ b[i - 1] = 8 + k /\ b[i] = 8 + c[i] /\ c[i] = k + m
    <3>1. i \in 0..n /\ i - 1 \in 0..n /\ ws[i] \in Seq(Nat)
      BY <1>1, <1>5
    <3>2. m \in Nat
      BY <3>1
    <3>3. b[i - 1] = 8 + k /\ b[i] = 8 + c[i]
      BY <3>1, Zenon
    <3> HIDE DEF b
    <3>4. k \in Nat
      BY <1>3, <3>1
    <3> QED BY <1>3, <3>2, <3>3, <3>4, Zenon
  <2>2. At(y, k, ws[i]) /\ ws[i] \in Seq(Nat)
    BY <1>1, <1>3
  <2> HIDE DEF k, m, b
  <2>3. 8 \in Nat
    OBVIOUS
  <2>4. At(e, 8 + k, ws[i])
    BY <1>2, <1>4, <2>1, <2>2, <2>3, AtPart
  <2>5. b[i] = (8 + k) + m /\ 8 + k \in Nat
    BY <2>1
  <2> QED BY <2>1, <2>4, <2>5 DEF m
<1> HIDE DEF b, l
<1> DEFINE Bad == {i \in 1..n : l < b[i]}
<1>8. PICK j \in Bad : \A i \in Bad : j <= i
  <2>1. n \in Bad
    <3>1. n # 0
      BY <1>3, <1>4
    <3> QED BY <1>1, <1>4, <1>6, <3>1
  <2>2. Bad \in SUBSET Nat /\ Bad # {}
    BY <2>1
  <2> HIDE DEF Bad
  <2> QED BY <2>2, Least
<1>9. j \in 1..n /\ l < b[j] /\ \A i \in 1..n : i < j => b[i] <= l
  <2>1. \A i \in 1..n : i < j => i \notin Bad
    BY <1>8
  <2>2. \A i \in 1..n : b[i] \in Nat
    BY <1>5, <1>6
  <2> QED BY <1>4, <1>8, <2>1, <2>2
<1>10. \A i \in 1..n : takes[i] = RespTuple(d)
  BY DEF Each
<1>11. Len(takes) = n
  BY <1>1 DEF Each
<1> HIDE DEF takes, Bad
<1>12. ASSUME NEW i \in 1..n, i < j PROVE takes[i][b[i - 1]] = Took(ts[i], b[i])
  <2> DEFINE t == ts[i]
             p == b[i - 1]
             x == ws[i]
  <2>1. t \in Rows /\ x = PackSized(t) /\ x \in Seq(Nat) /\ p \in Nat /\ b[i] = p + Len(x) /\ At(e, p, x)
    BY <1>1, <1>7
  <2>2. b[i] <= l
    BY <1>9, <1>12
  <2> HIDE DEF t, p, x
  <2>3. p + Len(x) <= Len(d) /\ p \in 0..Len(d)
    BY <2>1, <2>2 DEF l
  <2>4. At(d, p, x)
    BY <2>1, <2>3, AtPrefix DEF e
  <2>5. RespTuple(d)[p] = Took(t, p + Len(PackSized(t)))
    BY <2>1, <2>3, <2>4, RespTupleReads
  <2> QED BY <1>10, <2>1, <2>5 DEF p, t
<1>13. takes[j][b[j - 1]] = Fail
  <2> DEFINE t == ts[j]
             p == b[j - 1]
             x == ws[j]
  <2>1. t \in Rows /\ x = PackSized(t) /\ x \in Seq(Nat) /\ p \in Nat /\ b[j] = p + Len(x) /\ At(e, p, x)
    BY <1>1, <1>7, <1>9
  <2>2. p <= l
    <3>1. CASE j = 1
      <4>1. b[1 - 1] = 8
        BY <1>6
      <4> QED BY <1>4, <3>1, <4>1
    <3>2. CASE j # 1
      <4>1. \A k \in Nat : k # 1 /\ k \in 1..n => k - 1 \in 1..n /\ k - 1 < k
        BY <1>1
      <4>2. j \in Nat
        BY <1>9
      <4>3. j - 1 \in 1..n /\ j - 1 < j
        BY <1>9, <3>2, <4>1, <4>2
      <4> QED BY <1>9, <4>3
    <3> QED BY <3>1, <3>2
  <2> HIDE DEF t, p, x
  <2>3. p \in 0..Len(d) /\ Len(d) < p + Len(x)
    BY <1>9, <2>1, <2>2 DEF l
  <2>4. RespTuple(d)[p] = Fail
    BY <2>1, <2>3, RespTupleCut DEF e
  <2> QED BY <1>9, <1>10, <2>4 DEF p
<1>14. Fail.ok = FALSE
  BY DEF Fail
<1>15. ~takes[j][b[j - 1]].ok
  <2> DEFINE u == takes[j][b[j - 1]]
  <2>1. u = Fail
    BY <1>13
  <2> HIDE DEF u
  <2>2. ~u.ok
    BY <1>14, <2>1
  <2> QED BY <2>2 DEF u
<1>16. \A i \in 1..n : \/ takes[i][b[i - 1]] = Took(ts[i], b[i])
                       \/ takes[i][b[i - 1]] = Fail
                       \/ \E m \in 1..i - 1 : ~takes[m][b[m - 1]].ok
  <2> TAKE i \in 1..n
  <2>1. CASE i < j
    BY <1>12, <2>1
  <2>2. CASE i = j
    BY <1>13, <2>2
  <2>3. CASE i > j
    <3>1. j \in 1..i - 1
      BY <1>9, <2>3
    <3> QED BY <1>15, <3>1
  <2>4. i < j \/ i = j \/ i > j
    BY <1>9
  <2> QED BY <2>1, <2>2, <2>3, <2>4
<1>17. TakeEach(takes, b[0]) =
         IF \A i \in 1..n : takes[i][b[i - 1]].ok THEN Took(ts, b[n]) ELSE Fail
  <2> HIDE DEF V
  <2> QED BY <1>1, <1>6, <1>11, <1>16, EachTakes DEF n
<1>18. ~\A i \in 1..n : takes[i][b[i - 1]].ok
  BY <1>9, <1>15
<1> QED BY <1>6, <1>17, <1>18 DEF takes, n

\* Of a response that ends too early nothing is taken.
LEMMA ResponseCut ==
    ASSUME NEW ts \in Lists(Rows), NEW n \in {0} \cup 5..Len(PackResponse(RcOK, ts)) - 1,
           NEW uniq, NEW need
    PROVE  ProcessResp(SubSeq(PackResponse(RcOK, ts), 1, n), uniq, need) = Fail
<1> DEFINE e == PackResponse(RcOK, ts)
           d == SubSeq(e, 1, n)
           z == SubSeq(e, n + 1, Len(e))
           y == FlattenSeq(Sized(ts))
           m == Len(ts)
<1>1. /\ e \in Seq(Nat) /\ m \in Nat /\ m < Limit(4)
      /\ ts = <<>> => Len(e) = 4
      /\ ts # <<>> => /\ y \in Seq(Nat) /\ Len(e) = 8 + Len(y) /\ At(e, 0, LE(0, 4))
                      /\ At(e, 4, LE(m, 4)) /\ At(e, 8, y)
  <2>1. m \in Nat /\ m < Limit(4)
    BY ListIs
  <2> QED BY <2>1, ResponseIs
<1> HIDE DEF e, y, m
<1>2. n \in Nat /\ n <= Len(e) /\ (n # 0 => n >= 5 /\ n < Len(e))
  BY <1>1 DEF e
<1>3. d \in Seq(Nat) /\ Len(d) = n /\ z \in Seq(Nat) /\ d \o z = e
  BY <1>1, <1>2, Split
<1>4. \A k \in Nat : LE(k, 4) \in Seq(Nat) /\ Len(LE(k, 4)) = 4
  <2>1. 4 \in Nat
    OBVIOUS
  <2> QED BY <2>1, LEIs
<1> HIDE DEF d, z
<1>5. CASE n = 0
  <2>1. TakeLE(4, d, 0) = Fail
    BY <1>3, <1>5 DEF TakeLE
  <2>2. TakeStatus(d) = Fail
    BY <2>1 DEF TakeStatus, Fail
  <2> QED BY <2>2, ProcessFails DEF d, e
<1>6. CASE n # 0
  <2>1. ts # <<>> /\ n >= 5 /\ n < Len(e)
    <3>1. n >= 5 /\ n < Len(e) /\ Len(e) # 4
      BY <1>2, <1>6
    <3> QED BY <1>1, <3>1, Zenon
  <2> DEFINE x == LE(0, 4)
             b == LE(m, 4)
  <2>2. x \in Seq(Nat) /\ Len(x) = 4 /\ b \in Seq(Nat) /\ Len(b) = 4
    BY <1>1, <1>4
  <2>3. At(e, 0, x) /\ At(e, 4, b) /\ At(e, 8, y) /\ Len(e) = 8 + Len(y)
    BY <1>1, <2>1
  <2> HIDE DEF x, b
  <2>4. At(d, 0, x)
    <3>1. 0 \in Nat /\ 0 + Len(x) <= Len(d)
      BY <1>3, <2>1, <2>2
    <3> QED BY <1>3, <2>2, <2>3, <3>1, AtPrefix
  <2>5. CASE n < 8
    <3>1. Len(d) \in 5..7
      BY <1>2, <1>3, <2>1, <2>5
    <3>2. TakeStatus(d) = Fail
      BY <1>3, <2>4, <3>1, StatusIs DEF x
    <3> QED BY <3>2, ProcessFails DEF d, e
  <2>6. CASE ~(n < 8)
    <3>1. 4 \in Nat /\ 4 + Len(b) <= Len(d) /\ 8 <= Len(d)
      BY <1>2, <1>3, <2>2, <2>6
    <3>2. At(d, 4, b)
      BY <1>3, <2>2, <2>3, <3>1, AtPrefix
    <3>3. TakeStatus(d) = Took(m, 8)
      BY <1>1, <1>3, <2>4, <3>2, StatusIs DEF x, b
    <3> DEFINE r == TakeEach(Each(m, d), 8)
    <3>4. r = Fail
      <4>1. At(d \o z, 8, FlattenSeq(Sized(ts))) /\ Len(d) < 8 + Len(FlattenSeq(Sized(ts)))
        BY <1>3, <2>1, <2>3 DEF y
      <4>2. TakeEach(Each(Len(ts), d), 8) = Fail
        BY <1>3, <3>1, <4>1, TuplesCut
      <4> QED BY <4>2 DEF m
    <3> DEFINE q == 8
    <3>5. TakeStatus(d) = Took(m, q) /\ r = TakeEach(Each(m, d), q)
      BY <3>3
    <3> HIDE DEF r, q
    <3>6. ProcessResp(d, uniq, need) =
             IF ~CountFits(m, uniq, need) \/ ~r.ok \/ r.p < Len(d) THEN Fail
             ELSE [ok |-> TRUE, v |-> r.v]
      BY <3>5, ProcessIs
    <3>7. r.ok = FALSE
      BY <3>4 DEF Fail
    <3> QED BY <3>6, <3>7 DEF d, e
  <2> QED BY <2>5, <2>6
<1> QED BY <1>5, <1>6

-----------------------------------------------------------------------------
(* Streams *)

Bytes == Seq(Nat)

\* The bytes d are what came of the strings ws, in their order: all of them when
\* the stream is whole.
Meets(d, z, ws) == d \o z = FlattenSeq(ws)
Came(d, ws, whole) ==
    /\ d \in Bytes
    /\ \E z \in Bytes : Meets(d, z, ws) /\ (whole => z = <<>>)

\* The strings behind the first k.
Remaining(ps, k) == SubSeq(ps, k + 1, Len(ps))

\* A string that is added comes last of those that remain.
LEMMA RemainingAppend ==
    ASSUME NEW S, NEW ps \in Seq(S), NEW k \in 0..Len(ps), NEW x \in S
    PROVE  /\ Remaining(ps, k) \in Seq(S)
           /\ Remaining(Append(ps, x), k) = Append(Remaining(ps, k), x)
<1>1. Remaining(ps, k) \in Seq(S) /\ Len(Remaining(ps, k)) = Len(ps) - k
      /\ \A i \in 1..Len(ps) - k : Remaining(ps, k)[i] = ps[k + i]
  BY DEF Remaining
<1> DEFINE q == Append(ps, x)
<1>2. q \in Seq(S) /\ Len(q) = Len(ps) + 1 /\ q[Len(ps) + 1] = x
      /\ \A i \in 1..Len(ps) : q[i] = ps[i]
  OBVIOUS
<1>3. Remaining(q, k) \in Seq(S) /\ Len(Remaining(q, k)) = Len(q) - k
      /\ \A i \in 1..Len(q) - k : Remaining(q, k)[i] = q[k + i]
  <2> HIDE DEF q
  <2>1. k \in 0..Len(q)
    BY <1>2
  <2> QED BY <1>2, <2>1 DEF Remaining
<1> DEFINE a == Remaining(ps, k)
           b == Remaining(q, k)
           c == Append(a, x)
<1>4. c \in Seq(S) /\ Len(c) = Len(a) + 1 /\ c[Len(a) + 1] = x
      /\ \A i \in 1..Len(a) : c[i] = a[i]
  BY <1>1
<1> HIDE DEF a, b, q, c
<1>5. Len(b) = Len(c) /\ Len(c) \in Nat
  BY <1>1, <1>2, <1>3, <1>4 DEF a, b
<1>6. ASSUME NEW i \in 1..Len(c) PROVE b[i] = c[i]
  <2>1. Len(a) = Len(ps) - k /\ Len(q) = Len(ps) + 1 /\ Len(a) \in Nat /\ Len(ps) \in Nat
    BY <1>1, <1>2 DEF a
  <2>2. i \in 1..Len(q) - k
    BY <1>4, <2>1
  <2>3. b[i] = q[k + i]
    BY <1>3, <2>2 DEF b
  <2>4. CASE i \in 1..Len(a)
    <3>1. c[i] = a[i] /\ a[i] = ps[k + i] /\ k + i \in 1..Len(ps)
      BY <1>1, <1>4, <2>1, <2>4 DEF a
    <3> QED BY <1>2, <2>3, <3>1
  <2>5. CASE ~(i \in 1..Len(a))
    <3>1. i = Len(a) + 1 /\ k + i = Len(ps) + 1
      BY <1>4, <2>1, <2>5
    <3> QED BY <1>2, <1>4, <2>3, <3>1
  <2> QED BY <2>4, <2>5
<1>7. b \in Seq(S)
  BY <1>3 DEF b
<1>8. b = c
  BY <1>4, <1>5, <1>6, <1>7
<1> QED BY <1>1, <1>8, Zenon DEF a, b, q, c

\* The next string is first of those that remain.
LEMMA RemainingNext ==
    ASSUME NEW S, NEW ps \in Seq(S), NEW k \in 0..Len(ps) - 1
    PROVE  /\ Remaining(ps, k + 1) \in Seq(S)
           /\ Remaining(ps, k) = <<ps[k + 1]>> \o Remaining(ps, k + 1)
<1> DEFINE a == Remaining(ps, k)
           b == Remaining(ps, k + 1)
           c == <<ps[k + 1]>> \o b
<1>1. a \in Seq(S) /\ Len(a) = Len(ps) - k /\ \A i \in 1..Len(ps) - k : a[i] = ps[k + i]
  BY DEF Remaining
<1>2. b \in Seq(S) /\ Len(b) = Len(ps) - (k + 1)
      /\ \A i \in 1..Len(ps) - (k + 1) : b[i] = ps[k + 1 + i]
  BY DEF Remaining
<1>3. c \in Seq(S) /\ Len(c) = Len(b) + 1 /\ c[1] = ps[k + 1]
      /\ \A i \in 1..Len(b) : c[i + 1] = b[i]
  <2>1. ps[k + 1] \in S
    OBVIOUS
  <2> HIDE DEF b
  <2> QED BY <1>2, <2>1
<1> HIDE DEF a, b, c
<1>4. ASSUME NEW i \in 1..Len(c) PROVE a[i] = c[i]
  <2>1. CASE i = 1
    BY <1>1, <1>2, <1>3, <2>1
  <2>2. CASE i # 1
    <3>1. i - 1 \in 1..Len(b) /\ i = (i - 1) + 1 /\ i - 1 \in 1..Len(ps) - (k + 1)
          /\ i \in 1..Len(ps) - k /\ k + 1 + (i - 1) = k + i
      BY <1>1, <1>2, <1>3, <2>2
    <3>2. c[i] = b[i - 1] /\ b[i - 1] = ps[k + i] /\ a[i] = ps[k + i]
      BY <1>1, <1>2, <1>3, <3>1
    <3> QED BY <3>2
  <2> QED BY <2>1, <2>2
<1>5. Len(a) = Len(c) /\ Len(c) \in Nat
  BY <1>1, <1>2, <1>3
<1>6. a \in Seq(S) /\ c \in Seq(S)
  BY <1>1, <1>3
<1>7. a = c
  BY <1>4, <1>5, <1>6
<1> QED BY <1>2, <1>7, Zenon DEF a, b, c

\* Nothing remains behind the last.
LEMMA RemainingNone ==
    ASSUME NEW ps, Len(ps) \in Nat
    PROVE  Remaining(ps, Len(ps)) = <<>>
BY DEF Remaining

\* Nothing comes of nothing.
LEMMA CameNone ==
    /\ Came(<<>>, <<>>, TRUE)
    /\ \A d, whole : Came(d, <<>>, whole) => d = <<>>
<1>1. Meets(<<>>, <<>>, <<>>)
  BY FlattenNone DEF Meets
<1>2. ASSUME NEW d \in Bytes, NEW z \in Bytes, d \o z = <<>> PROVE d = <<>>
  <2>1. Len(d) + Len(z) = 0
    <3> DEFINE e == d \o z
    <3>1. Len(e) = Len(d) + Len(z)
      BY Join DEF Bytes
    <3>2. Len(e) = 0
      BY <1>2
    <3> QED BY <3>1, <3>2
  <2> QED BY <2>1 DEF Bytes
<1>3. <<>> \in Bytes
  BY DEF Bytes
<1> QED BY <1>1, <1>2, <1>3, FlattenNone DEF Came, Meets

\* A stream that is whole takes what is written.
LEMMA CameMore ==
    ASSUME NEW d, NEW ws \in Seq(Bytes), Came(d, ws, TRUE), NEW x \in Bytes
    PROVE  Came(d \o x, Append(ws, x), TRUE)
<1>1. Meets(d, <<>>, ws)
  BY DEF Came
<1>2. FlattenSeq(ws) \in Bytes /\ FlattenSeq(Append(ws, x)) = FlattenSeq(ws) \o x
  BY FlattenAppend DEF Bytes
<1>3. d \in Bytes
  BY DEF Came
<1> DEFINE e == d \o x
<1>4. d = FlattenSeq(ws)
  <2>1. d \o <<>> = d
    BY <1>3 DEF Bytes
  <2> QED BY <1>1, <2>1, Zenon DEF Meets
<1>5. e \in Bytes /\ e = FlattenSeq(Append(ws, x))
  <2>1. e \in Bytes
    BY <1>3, Join DEF Bytes
  <2> QED BY <1>2, <1>4, <2>1
<1> HIDE DEF e
<1>6. e \o <<>> = e
  BY <1>5 DEF Bytes
<1>7. Meets(e, <<>>, Append(ws, x))
  BY <1>5, <1>6, Zenon DEF Meets
<1>8. <<>> \in Bytes
  BY DEF Bytes
<1>9. Came(e, Append(ws, x), TRUE)
  BY <1>5, <1>7, <1>8 DEF Came
<1> QED BY <1>9 DEF e

\* To what comes of a stream that is not, it makes no difference.
LEMMA CameLate ==
    ASSUME NEW d, NEW ws \in Seq(Bytes), Came(d, ws, FALSE), NEW x \in Bytes
    PROVE  Came(d, Append(ws, x), FALSE)
<1>1. PICK z \in Bytes : Meets(d, z, ws)
  BY DEF Came
<1>2. FlattenSeq(ws) \in Bytes /\ FlattenSeq(Append(ws, x)) = FlattenSeq(ws) \o x
  BY FlattenAppend DEF Bytes
<1>3. d \in Bytes
  BY DEF Came
<1> DEFINE y == z \o x
           v == Append(ws, x)
<1>4. y \in Bytes
  BY Join DEF Bytes
<1>5. d \o y = (d \o z) \o x
  BY <1>3, Regroup, Zenon DEF Bytes
<1>6. d \o z = FlattenSeq(ws)
  BY <1>1 DEF Meets
<1>7. d \o y = FlattenSeq(v)
  BY <1>2, <1>5, <1>6, Zenon
<1> HIDE DEF y, v
<1>8. Came(d, v, FALSE)
  BY <1>3, <1>4, <1>7 DEF Came, Meets
<1> QED BY <1>8 DEF v

\* The beginning of a stream comes of the same strings.
LEMMA CameCut ==
    ASSUME NEW d, NEW ws \in Seq(Bytes), NEW whole, Came(d, ws, whole), NEW m \in 0..Len(d)
    PROVE  Came(SubSeq(d, 1, m), ws, FALSE)
<1>1. PICK z \in Bytes : Meets(d, z, ws)
  BY DEF Came
<1> DEFINE a == SubSeq(d, 1, m)
           b == SubSeq(d, m + 1, Len(d))
           y == b \o z
<1>2. d \in Bytes /\ m \in Nat /\ m <= Len(d)
  BY DEF Came, Bytes
<1>3. a \in Bytes /\ b \in Bytes /\ a \o b = d
  BY <1>2, Split DEF Bytes
<1> HIDE DEF a, b
<1>4. y \in Bytes
  BY <1>3, Join DEF Bytes
<1>5. a \o y = (a \o b) \o z
  BY <1>3, Regroup, Zenon DEF Bytes
<1>6. a \o y = FlattenSeq(ws)
  BY <1>1, <1>3, <1>5, Zenon DEF Meets
<1> HIDE DEF y
<1>7. Came(a, ws, FALSE)
  BY <1>3, <1>4, <1>6 DEF Came, Meets
<1> QED BY <1>7 DEF a

\* All of it does, and nothing of it does.
LEMMA CameBroken ==
    ASSUME NEW d, NEW ws \in Seq(Bytes), NEW whole, Came(d, ws, whole)
    PROVE  Came(d, ws, FALSE) /\ Came(<<>>, ws, FALSE)
<1>1. Came(d, ws, FALSE)
  BY DEF Came
<1>2. 0 \in 0..Len(d)
  BY DEF Came, Bytes
<1>3. SubSeq(d, 1, 0) = <<>>
  BY DEF Came, Bytes
<1> QED BY <1>1, <1>2, <1>3, CameCut

\* A packet is a byte string.
LEMMA PacketBytes ==
    ASSUME NEW msg \in Nat, NEW sync \in Nat, NEW body \in Seq(Nat)
    PROVE  Packet(msg, sync, body) \in Seq(Nat)
<1> DEFINE a == LE(msg, 4)
           b == LE(Len(body), 4)
           c == LE(sync, 4)
<1>1. a \in Seq(Nat) /\ b \in Seq(Nat) /\ c \in Seq(Nat)
  <2>1. Len(body) \in Nat
    OBVIOUS
  <2> QED BY <2>1, LEIs
<1> HIDE DEF a, b, c
<1>2. a \o b \in Seq(Nat)
  BY <1>1, Join, Zenon
<1>3. (a \o b) \o c \in Seq(Nat)
  BY <1>1, <1>2, Join, Zenon
<1>4. ((a \o b) \o c) \o body \in Seq(Nat)
  BY <1>3, Join, Zenon
<1> QED BY <1>4, Zenon DEF a, b, c, Packet

\* A packet that is read is the first one, and the others remain.
LEMMA CamePacket ==
    ASSUME NEW msg, NEW sync, NEW body, Sendable(msg, sync, body), NEW ws \in Seq(Bytes),
           NEW d, NEW whole,
           Came(d, <<Packet(msg, sync, body)>> \o ws, whole), NEW limit, TakePacket(d, limit).ok
    PROVE  LET p == TakePacket(d, limit)
           IN  /\ p.msg = msg /\ p.sync = sync /\ p.data = body
               /\ Came(p.rest, ws, whole)
<1> DEFINE x == Packet(msg, sync, body)
           v == <<x>> \o ws
           t == FlattenSeq(ws)
           p == TakePacket(d, limit)
<1>1. PICK z \in Bytes : Meets(d, z, v) /\ (whole => z = <<>>)
  BY DEF Came
<1>2. d \in Bytes
  BY DEF Came
<1>3. x \in Seq(Nat)
  BY PacketBytes DEF Sendable
<1>4. t \in Seq(Nat)
  <2> QED BY StartsHave DEF Bytes
<1> HIDE DEF x
<1>5. FlattenSeq(v) = x \o t
  BY <1>3, FlattenCons DEF Bytes
<1>6. d \o z = x \o t
  <2> HIDE DEF v, t
  <2> QED BY <1>1, <1>5, Zenon DEF Meets
<1> HIDE DEF t
<1>7. /\ p.msg = msg /\ p.sync = sync /\ p.data = body
      /\ p.rest \in Seq(Nat) /\ p.rest \o z = t
  <2>1. d \in Seq(Nat) /\ z \in Seq(Nat) /\ Joins(d, z, Packet(msg, sync, body), t)
    BY <1>2, <1>6, Zenon DEF Bytes, Joins, x
  <2> HIDE DEF p
  <2>2. Gives(TakePacket(d, limit), msg, sync, body, z, t)
    BY <1>4, <2>1, PacketTaken, Zenon
  <2> QED BY <2>2, Zenon DEF p, Gives
<1>8. Came(p.rest, ws, whole)
  <2> DEFINE r == p.rest
  <2>1. r \in Bytes /\ Meets(r, z, ws)
    BY <1>7, Zenon DEF Meets, Bytes, t
  <2> HIDE DEF p, r
  <2>2. Came(r, ws, whole)
    BY <1>1, <2>1 DEF Came
  <2> QED BY <2>2 DEF r
<1> QED BY <1>7, <1>8

-----------------------------------------------------------------------------
(* Requests *)

\* The message codes are numbers of the wire.
LEMMA Codes == Limit(4) \in Nat /\ 63 < Limit(4)
<1>1. Byte \in Nat /\ Byte >= 32
  BY WireAssumption DEF Byte
<1> DEFINE a == Byte * Byte
           b == Byte * a
<1>2. Limit(4) = Byte * b /\ Limit(4) \in Nat
  BY Limits
<1>3. a \in Nat /\ a >= 2
  BY <1>1
<1> HIDE DEF a
<1>4. b \in Nat /\ b >= 2
  BY <1>1, <1>3
<1> HIDE DEF b
<1>5. Byte * b >= 64
  BY <1>1, <1>4
<1> QED BY <1>2, <1>5

\* Each kind of request has its message.
LEMMA KindOf ==
    \A k \in {"insert", "select", "update", "delete", "lua"} :
        /\ k \in DOMAIN MsgOf /\ MsgOf[k] \in 13..22
        /\ \A j \in DOMAIN MsgOf : MsgOf[j] = MsgOf[k] => j = k
BY DEF MsgOf

\* What the server makes of a request: it takes the flag of an insert for the mode.
Arrives(r) ==
    IF r.kind = "insert" THEN [r EXCEPT !.mode = IF @ = 0 THEN 0 ELSE Power(2, @)]
                         ELSE AsRead(r)

\* What a request is on the wire, and what a server reads there.
RequestOK(r) ==
    /\ Msg(r) \in Nat /\ Msg(r) < Limit(4)
    /\ Data(r) \in Seq(Nat) /\ Len(Data(r)) < Limit(4)
    /\ \A p : p.msg = Msg(r) /\ p.data = Data(r) =>
                  Unpacked(p, r) = [ok |-> TRUE, r |-> Arrives(r)]
    /\ r.kind \notin {"lua", "user"} => Len(Data(r)) <= Capacity(r)

\* The requests of the octopus have their kind, their bytes, and their readers.
LEMMA OctopusRead ==
    ASSUME NEW r \in Inserts \cup Selects \cup Updates \cup Deletes \cup Luas
    PROVE  /\ r.kind \in {"insert", "select", "update", "delete", "lua"}
           /\ Body(r) \in Seq(Nat)
           /\ ReadRequest(r.kind, Body(r)) = [ok |-> TRUE, r |-> Arrives(r)]
           /\ r.kind # "lua" => Len(Body(r)) <= Capacity(r)
<1>1. CASE r \in Inserts
  <2>1. r.kind = "insert"
    BY <1>1 DEF Inserts
  <2>2. Arrives(r) = [r EXCEPT !.mode = IF @ = 0 THEN 0 ELSE Power(2, @)]
    BY <2>1 DEF Arrives
  <2> QED BY <1>1, <2>1, <2>2, InsertRead, CapacityHolds
<1>2. CASE r \in Selects
  <2>1. r.kind = "select"
    BY <1>2 DEF Selects
  <2>2. Arrives(r) = [r EXCEPT !.limit = IF @ = NoLimit THEN 0 ELSE @]
    BY <2>1 DEF Arrives, AsRead
  <2> QED BY <1>2, <2>1, <2>2, SelectRead, CapacityHolds
<1>3. CASE r \in Updates
  <2>1. r.kind = "update" /\ Arrives(r) = r
    BY <1>3 DEF Updates, Arrives, AsRead
  <2> QED BY <1>3, <2>1, UpdateRead, CapacityHolds
<1>4. CASE r \in Deletes
  <2>1. r.kind = "delete" /\ Arrives(r) = r
    BY <1>4 DEF Deletes, Arrives, AsRead
  <2> QED BY <1>4, <2>1, DeleteRead, CapacityHolds
<1>5. CASE r \in Luas
  <2>1. r.kind = "lua" /\ Arrives(r) = r
    BY <1>5 DEF Luas, Arrives, AsRead
  <2> QED BY <1>5, <2>1, LuaRead
<1> QED BY <1>1, <1>2, <1>3, <1>4, <1>5

\* Every request of a client is such a one.
LEMMA RequestsOK == \A r \in Requests : RequestOK(r)
<1> SUFFICES ASSUME NEW r \in Requests PROVE RequestOK(r)
  OBVIOUS
<1>1. MadeRequest(r)
  BY SessionAssumption
<1>2. Limit(4) \in Nat /\ 63 < Limit(4)
  BY Codes
<1>3. CASE r \in Inserts \cup Selects \cup Updates \cup Deletes \cup Luas
  <2>1. /\ r.kind \in {"insert", "select", "update", "delete", "lua"}
        /\ Body(r) \in Seq(Nat)
        /\ ReadRequest(r.kind, Body(r)) = [ok |-> TRUE, r |-> Arrives(r)]
        /\ r.kind # "lua" => Len(Body(r)) <= Capacity(r)
    BY <1>3, OctopusRead
  <2>2. ~IsUser(r) /\ Msg(r) = MsgOf[r.kind] /\ Data(r) = Body(r)
    BY <2>1 DEF IsUser, Msg, Data
  <2>3. Msg(r) \in 13..22 /\ \A j \in DOMAIN MsgOf : MsgOf[j] = Msg(r) => j = r.kind
    BY <2>1, <2>2, KindOf
  <2>4. r.kind \in DOMAIN MsgOf
    BY <2>1, KindOf
  <2>5. ASSUME NEW p, p.msg = Msg(r), p.data = Data(r)
        PROVE  Unpacked(p, r) = [ok |-> TRUE, r |-> Arrives(r)]
    <3> DEFINE c == CHOOSE k \in DOMAIN MsgOf : MsgOf[k] = p.msg
    <3>1. c \in DOMAIN MsgOf /\ MsgOf[c] = p.msg
      BY <2>2, <2>4, <2>5, Zenon
    <3>2. c = r.kind
      BY <2>3, <2>5, <3>1, Zenon
    <3>3. p.msg \in {MsgOf[k] : k \in DOMAIN MsgOf}
      BY <2>2, <2>4, <2>5, Zenon
    <3>4. Unpacked(p, r) = ReadRequest(c, p.data)
      BY <3>3, Zenon DEF Unpacked
    <3> QED BY <2>1, <2>2, <2>5, <3>2, <3>4, Zenon
  <2>6. Len(Data(r)) < Limit(4)
    BY <1>1 DEF MadeRequest
  <2>7. Msg(r) \in Nat /\ Msg(r) < Limit(4)
    BY <1>2, <2>3
  <2>8. r.kind \notin {"lua", "user"} => Len(Data(r)) <= Capacity(r)
    BY <2>1, <2>2
  <2>9. Data(r) \in Seq(Nat)
    BY <2>1, <2>2
  <2> QED BY <2>5, <2>6, <2>7, <2>8, <2>9, Zenon DEF RequestOK
<1>4. CASE ~(r \in Inserts \cup Selects \cup Updates \cup Deletes \cup Luas)
  <2>1. /\ IsUser(r) /\ PackUser(r) \in Seq(Nat) /\ Len(Data(r)) < Limit(4)
        /\ UnpackUser(r, PackUser(r)) = [ok |-> TRUE, r |-> r.values]
    BY <1>1, <1>4, Zenon DEF MadeRequest
  <2>2. r.kind = "user" /\ Msg(r) = 1 /\ Data(r) = PackUser(r) /\ Arrives(r) = r.values
    BY <2>1 DEF IsUser, Msg, Data, Arrives, AsRead
  <2>3. 1 \notin {MsgOf[k] : k \in DOMAIN MsgOf}
    BY DEF MsgOf
  <2>4. ASSUME NEW p, p.msg = Msg(r), p.data = Data(r)
        PROVE  Unpacked(p, r) = [ok |-> TRUE, r |-> Arrives(r)]
    <3>1. Unpacked(p, r) = UnpackUser(r, p.data)
      BY <2>2, <2>3, <2>4, Zenon DEF Unpacked
    <3> QED BY <2>1, <2>2, <2>4, <3>1, Zenon
  <2>5. Msg(r) \in Nat /\ Msg(r) < Limit(4) /\ Data(r) \in Seq(Nat)
    BY <1>2, <2>1, <2>2
  <2>6. ~(r.kind \notin {"lua", "user"})
    BY <2>2
  <2> QED BY <2>1, <2>4, <2>5, <2>6, Zenon DEF RequestOK
<1> QED BY <1>3, <1>4

-----------------------------------------------------------------------------
(* Answers *)

\* What a fixture's response, or the answer that none was found, is to a request.
AnswerBody(f) == IF f = Nil THEN NotFound ELSE f.response

\* A response is whole or it is cut, and is read as such.
LEMMA ResponsesOK ==
    ASSUME NEW f \in AllFixtures \cup {Nil}, NEW r
    PROVE  /\ AnswerBody(f) \in Seq(Nat) /\ Len(AnswerBody(f)) < Limit(4)
           /\ ProcessResp(AnswerBody(f), Flagged(r), Flagged(r)) = Expected(f, r)
<1>1. Limit(4) \in Nat /\ 63 < Limit(4)
  BY Codes
<1> DEFINE u == Flagged(r)
<1>2. CASE f = Nil
  <2> DEFINE a == LE(1, 4)
             d == a \o <<63>>
  <2>1. a \in Seq(Nat) /\ Len(a) = 4 /\ <<63>> \in Seq(Nat) /\ Len(<<63>>) = 1
    <3>1. 1 \in Nat /\ 4 \in Nat
      OBVIOUS
    <3>2. LE(1, 4) \in Seq(Nat) /\ Len(LE(1, 4)) = 4
      BY <3>1, LEIs
    <3>3. <<63>> \in Seq(Nat) /\ Len(<<63>>) = 1
      OBVIOUS
    <3> QED BY <3>2, <3>3
  <2>2. At(d, 0, a)
    BY <2>1, AtWhole
  <2> DEFINE b == <<63>>
  <2> HIDE DEF a, b
  <2>3. d \in Seq(Nat) /\ Len(d) = 5
    <3>1. b \in Seq(Nat) /\ Len(b) = 1
      BY <2>1 DEF b
    <3>2. a \o b \in Seq(Nat) /\ Len(a \o b) = Len(a) + Len(b)
      BY <2>1, <3>1, Join, Zenon
    <3> DEFINE l == Len(a \o b)
    <3>3. l = Len(a) + Len(b)
      BY <3>2
    <3> HIDE DEF l
    <3>4. l = 5
      BY <2>1, <3>1, <3>3
    <3> QED BY <3>2, <3>4, Zenon DEF l, b
  <2> HIDE DEF d
  <2>4. TakeLE(4, d, 0) = Took(1, 0 + 4)
    <3>1. 1 \in Nat /\ 4 \in Nat \ {0} /\ 0 \in Nat /\ 1 < Limit(4)
      BY <1>1
    <3> QED BY <2>2, <2>3, <3>1, LEReads DEF a
  <2>5. TakeStatus(d) = Fail
    <3>1. TakeLE(4, d, 0).v # RcOK
      BY <2>4 DEF Took, RcOK
    <3> QED BY <3>1, Zenon DEF TakeStatus
  <2>6. ProcessResp(d, u, u) = Fail
    <3> HIDE DEF u
    <3> QED BY <2>5, ProcessFails
  <2>7. AnswerBody(f) = d /\ Expected(f, r) = Fail
    BY <1>2, Zenon DEF AnswerBody, NotFound, d, a, b, Expected
  <2>8. Len(d) < Limit(4)
    BY <1>1, <2>3
  <2> QED BY <2>3, <2>6, <2>7, <2>8, Zenon
<1>3. CASE f # Nil
  <2> DEFINE ts == f.tuples
             d == PackResponse(RcOK, ts)
  <2>1. /\ ts \in Lists(Rows) /\ Len(d) < Limit(4)
        /\ IF f.cut THEN \E n \in {0} \cup 5..Len(d) - 1 : f.response = SubSeq(d, 1, n)
                    ELSE f.response = d
    BY <1>3, SessionAssumption, Zenon DEF MadeFixture
  <2>2. d \in Seq(Nat)
    <3> HIDE DEF ts
    <3>1. CASE ts = <<>>
      BY <2>1, <3>1, ResponseIs
    <3>2. CASE ts # <<>>
      BY <2>1, <3>2, ResponseIs
    <3> QED BY <3>1, <3>2
  <2>3. AnswerBody(f) = f.response
    BY <1>3 DEF AnswerBody
  <2>4. CASE ~f.cut
    <3>1. ProcessResp(d, u, u) =
            IF ~CountFits(Len(ts), u, u) THEN Fail ELSE [ok |-> TRUE, v |-> ts]
      BY <2>1, ResponseReads, Zenon
    <3>2. Expected(f, r) = IF ~CountFits(Len(ts), u, u) THEN Fail ELSE [ok |-> TRUE, v |-> ts]
      BY <1>3, <2>4, Zenon DEF Expected
    <3>3. f.response = d
      BY <2>1, <2>4, Zenon
    <3> HIDE DEF d
    <3> QED BY <2>1, <2>2, <2>3, <3>1, <3>2, <3>3, Zenon
  <2>5. CASE f.cut
    <3>1. PICK n \in {0} \cup 5..Len(d) - 1 : f.response = SubSeq(d, 1, n)
      BY <2>1, <2>5, Zenon
    <3>2. ProcessResp(SubSeq(d, 1, n), u, u) = Fail
      BY <2>1, <3>1, ResponseCut, Zenon
    <3>3. Expected(f, r) = Fail
      BY <1>3, <2>5, Zenon DEF Expected
    <3> HIDE DEF d
    <3>4. n \in Nat /\ n <= Len(d) /\ Len(d) \in Nat
      BY <2>2
    <3>5. SubSeq(d, 1, n) \in Seq(Nat) /\ Len(SubSeq(d, 1, n)) = n
      BY <2>2, <3>4, Split
    <3>6. n < Limit(4)
      BY <1>1, <2>1, <3>4
    <3>7. AnswerBody(f) \in Seq(Nat) /\ Len(AnswerBody(f)) < Limit(4)
      BY <2>3, <3>1, <3>5, <3>6
    <3> QED BY <2>3, <3>1, <3>2, <3>3, <3>7, Zenon
  <2> QED BY <2>4, <2>5
<1> QED BY <1>2, <1>3

-----------------------------------------------------------------------------
(* Sessions *)

\* The packets of the requests that were sent, and those of the answers to the
\* ones that were handled.
Asked(s) == [i \in DOMAIN s |-> Packet(Msg(s[i]), i, Data(s[i]))]
Answered(s, h) == [i \in DOMAIN h |-> Packet(Msg(s[i]), i, AnswerBody(h[i].fixture))]

\* What the server makes of a packet.
Readings  == {Nil} \cup {[ok |-> TRUE, r |-> Arrives(r)] : r \in Requests}
Handlings == [sync : Nat, fixture : AllFixtures \cup {Nil}, read : Readings]
Resps     == {Expected(f, r) : f \in AllFixtures \cup {Nil}, r \in Requests}
Results   == [sync : Nat, resp : Resps]

HandledOK(h, r, i) ==
    /\ h.sync = i
    /\ h.fixture = Nil => h.read = [ok |-> TRUE, r |-> Arrives(r)]
    /\ h.fixture # Nil => h.fixture.request = Data(r)

ResultOK(x, f, r, i) == x.sync = i /\ x.resp = Expected(f, r)

\* Requests that are handled in their order and answers that are read in theirs,
\* with the bytes of the others on their way.
SessionInv ==
    /\ sent \in Seq(Requests) /\ Len(sent) <= MaxCalls
    /\ fixtures \in Seq(AllFixtures)
    /\ broken \in BOOLEAN
    /\ handled \in Seq(Handlings) /\ Len(handled) <= Len(sent)
    /\ results \in Seq(Results) /\ Len(results) <= Len(handled)
    /\ \A i \in 1..Len(handled) : HandledOK(handled[i], sent[i], i)
    /\ \A i \in 1..Len(results) : ResultOK(results[i], handled[i].fixture, sent[i], i)
    /\ Came(up, Remaining(Asked(sent), Len(handled)), ~broken)
    /\ Came(down, Remaining(Answered(sent, handled), Len(results)), ~broken)

\* The packet of a request is sent behind the others.
LEMMA AskedIs ==
    ASSUME NEW s \in Seq(Requests)
    PROVE  /\ Asked(s) \in Seq(Bytes) /\ Len(Asked(s)) = Len(s)
           /\ \A i \in 1..Len(s) : Asked(s)[i] = Packet(Msg(s[i]), i, Data(s[i]))
           /\ \A r \in Requests : /\ Packet(Msg(r), Len(s) + 1, Data(r)) \in Bytes
                                  /\ Asked(Append(s, r)) =
                                       Append(Asked(s), Packet(Msg(r), Len(s) + 1, Data(r)))
<1>1. \A r \in Requests : \A i \in Nat : Packet(Msg(r), i, Data(r)) \in Bytes
  <2> SUFFICES ASSUME NEW r \in Requests, NEW i \in Nat PROVE Packet(Msg(r), i, Data(r)) \in Bytes
    OBVIOUS
  <2>1. Msg(r) \in Nat /\ Data(r) \in Seq(Nat)
    BY RequestsOK DEF RequestOK
  <2> QED BY <2>1, PacketBytes DEF Bytes
<1>2. ASSUME NEW q \in Seq(Requests)
      PROVE  /\ Asked(q) \in Seq(Bytes) /\ Len(Asked(q)) = Len(q)
             /\ \A i \in 1..Len(q) : Asked(q)[i] = Packet(Msg(q[i]), i, Data(q[i]))
  <2>1. DOMAIN q = 1..Len(q) /\ Len(q) \in Nat /\ \A i \in 1..Len(q) : q[i] \in Requests /\ i \in Nat
    OBVIOUS
  <2>2. \A i \in 1..Len(q) : Packet(Msg(q[i]), i, Data(q[i])) \in Bytes
    BY <1>1, <2>1
  <2> QED BY <2>1, <2>2 DEF Asked
<1>3. ASSUME NEW r \in Requests
      PROVE  Asked(Append(s, r)) = Append(Asked(s), Packet(Msg(r), Len(s) + 1, Data(r)))
  <2> DEFINE q == Append(s, r)
             a == Asked(q)
             x == Packet(Msg(r), Len(s) + 1, Data(r))
             b == Append(Asked(s), x)
  <2>1. /\ q \in Seq(Requests) /\ Len(q) = Len(s) + 1 /\ q[Len(s) + 1] = r /\ Len(s) \in Nat
        /\ \A i \in 1..Len(s) : q[i] = s[i]
    OBVIOUS
  <2>2. x \in Bytes
    BY <1>1
  <2> HIDE DEF q, x
  <2>3. /\ a \in Seq(Bytes) /\ Len(a) = Len(s) + 1
        /\ \A i \in 1..Len(s) + 1 : a[i] = Packet(Msg(q[i]), i, Data(q[i]))
    BY <1>2, <2>1
  <2> DEFINE c == Asked(s)
  <2>4. /\ c \in Seq(Bytes) /\ Len(c) = Len(s)
        /\ \A i \in 1..Len(s) : c[i] = Packet(Msg(s[i]), i, Data(s[i]))
    BY <1>2
  <2> HIDE DEF a, c
  <2>5. /\ b \in Seq(Bytes) /\ Len(b) = Len(s) + 1 /\ b[Len(s) + 1] = x
        /\ \A i \in 1..Len(s) : b[i] = c[i]
    BY <2>1, <2>2, <2>4 DEF c
  <2> HIDE DEF b
  <2>6. ASSUME NEW i \in 1..Len(s) + 1 PROVE a[i] = b[i]
    <3>1. CASE i \in 1..Len(s)
      BY <2>1, <2>3, <2>4, <2>5, <3>1
    <3>2. CASE ~(i \in 1..Len(s))
      <4>1. i = Len(s) + 1
        BY <2>1, <3>2
      <4>2. a[i] = Packet(Msg(r), i, Data(r))
        BY <2>1, <2>3, <4>1
      <4> QED BY <2>5, <4>1, <4>2 DEF x
    <3> QED BY <3>1, <3>2
  <2>7. a = b
    BY <2>1, <2>3, <2>5, <2>6
  <2> QED BY <2>7, Zenon DEF a, b, q, x
<1>4. Len(s) + 1 \in Nat
  OBVIOUS
<1> QED BY <1>1, <1>2, <1>3, <1>4

\* The answer to a request goes behind the others, and what is sent later changes
\* no answer.
LEMMA AnsweredIs ==
    ASSUME NEW s \in Seq(Requests), NEW h \in Seq(Handlings), Len(h) <= Len(s)
    PROVE  /\ Answered(s, h) \in Seq(Bytes) /\ Len(Answered(s, h)) = Len(h)
           /\ \A i \in 1..Len(h) :
                  Answered(s, h)[i] = Packet(Msg(s[i]), i, AnswerBody(h[i].fixture))
<1>1. DOMAIN h = 1..Len(h) /\ Len(h) \in Nat
  OBVIOUS
<1>2. ASSUME NEW i \in 1..Len(h)
      PROVE  Packet(Msg(s[i]), i, AnswerBody(h[i].fixture)) \in Bytes
  <2>1. s[i] \in Requests /\ h[i] \in Handlings /\ i \in Nat
    OBVIOUS
  <2>2. h[i].fixture \in AllFixtures \cup {Nil}
    BY <2>1 DEF Handlings
  <2>3. Msg(s[i]) \in Nat
    BY <2>1, RequestsOK DEF RequestOK
  <2>4. AnswerBody(h[i].fixture) \in Seq(Nat)
    BY <2>2, ResponsesOK
  <2> QED BY <2>1, <2>3, <2>4, PacketBytes DEF Bytes
<1> QED BY <1>1, <1>2 DEF Answered

\* What is sent later changes no answer.
LEMMA AnsweredSame ==
    ASSUME NEW s \in Seq(Requests), NEW h \in Seq(Handlings), Len(h) <= Len(s),
           NEW r \in Requests
    PROVE  Answered(Append(s, r), h) = Answered(s, h)
<1> DEFINE q == Append(s, r)
<1>1. q \in Seq(Requests) /\ Len(h) <= Len(q) /\ \A i \in 1..Len(h) : q[i] = s[i]
  OBVIOUS
<1> HIDE DEF q
<1>2. DOMAIN h = 1..Len(h)
  OBVIOUS
<1>3. Answered(q, h) = Answered(s, h)
  BY <1>1, <1>2 DEF Answered
<1> QED BY <1>3 DEF q

\* The answer to the next request goes behind the others.
LEMMA AnsweredNext ==
    ASSUME NEW s \in Seq(Requests), NEW h \in Seq(Handlings), Len(h) < Len(s),
           NEW x \in Handlings
    PROVE  LET y == Packet(Msg(s[Len(h) + 1]), Len(h) + 1, AnswerBody(x.fixture))
           IN  /\ y \in Bytes
               /\ Answered(s, Append(h, x)) = Append(Answered(s, h), y)
<1> DEFINE k == Len(h) + 1
           y == Packet(Msg(s[k]), k, AnswerBody(x.fixture))
           q == Append(h, x)
           a == Answered(s, q)
           c == Answered(s, h)
           b == Append(c, y)
<1>1. /\ q \in Seq(Handlings) /\ Len(q) = k /\ q[k] = x /\ Len(h) \in Nat /\ Len(q) <= Len(s)
      /\ \A i \in 1..Len(h) : q[i] = h[i]
  OBVIOUS
<1>2. Len(h) <= Len(s)
  OBVIOUS
<1> HIDE DEF q
<1>3. /\ a \in Seq(Bytes) /\ Len(a) = k
      /\ \A i \in 1..k : a[i] = Packet(Msg(s[i]), i, AnswerBody(q[i].fixture))
  BY <1>1, AnsweredIs
<1>4. /\ c \in Seq(Bytes) /\ Len(c) = Len(h)
      /\ \A i \in 1..Len(h) : c[i] = Packet(Msg(s[i]), i, AnswerBody(h[i].fixture))
  BY <1>2, AnsweredIs
<1>5. k \in 1..k /\ a[k] = y
  BY <1>1, <1>3
<1>6. y \in Bytes
  BY <1>3, <1>5
<1> HIDE DEF a, c, y
<1>7. b \in Seq(Bytes) /\ Len(b) = k /\ b[k] = y /\ \A i \in 1..Len(h) : b[i] = c[i]
  BY <1>1, <1>4, <1>6
<1> HIDE DEF b
<1>8. ASSUME NEW i \in 1..k PROVE a[i] = b[i]
  <2>1. CASE i \in 1..Len(h)
    <3>1. i \in 1..k /\ q[i] = h[i]
      BY <1>1, <2>1
    <3> QED BY <1>3, <1>4, <1>7, <2>1, <3>1
  <2>2. CASE ~(i \in 1..Len(h))
    <3>1. i = k
      BY <1>1, <2>2
    <3> QED BY <1>5, <1>7, <3>1
  <2> QED BY <2>1, <2>2
<1>9. a = b
  BY <1>1, <1>3, <1>7, <1>8
<1>10. Answered(s, Append(h, x)) = Append(Answered(s, h), y)
  BY <1>9, Zenon DEF a, b, c, q
<1> QED BY <1>6, <1>10, Zenon DEF y, k

\* The first session is empty.
LEMMA SessionStarts ==
    ASSUME SessionInit
    PROVE  SessionInv
<1>1. sent \in Seq(Requests) /\ Len(sent) = 0
  BY DEF SessionInit
<1>2. handled \in Seq(Handlings) /\ Len(handled) = 0 /\ results \in Seq(Results) /\ Len(results) = 0
  BY DEF SessionInit
<1>3. fixtures \in Seq(AllFixtures) /\ broken \in BOOLEAN
  <2>1. fixtures = <<>> /\ broken = FALSE
    BY DEF SessionInit
  <2>2. \A S : <<>> \in Seq(S)
    OBVIOUS
  <2> QED BY <2>1, <2>2
<1>4. MaxCalls \in Nat
  BY SessionAssumption
<1>5. Asked(sent) \in Seq(Bytes) /\ Len(Asked(sent)) = 0
  BY <1>1, AskedIs
<1>6. Answered(sent, handled) \in Seq(Bytes) /\ Len(Answered(sent, handled)) = 0
  <2>1. Len(handled) <= Len(sent)
    BY <1>1, <1>2
  <2> QED BY <1>1, <1>2, <2>1, AnsweredIs
<1>7. Remaining(Asked(sent), Len(handled)) = <<>>
  BY <1>2, <1>5, RemainingNone
<1>8. Remaining(Answered(sent, handled), Len(results)) = <<>>
  BY <1>2, <1>6, RemainingNone
<1>9. up = <<>> /\ down = <<>> /\ ~broken
  BY DEF SessionInit
<1>10. /\ Came(up, Remaining(Asked(sent), Len(handled)), ~broken)
       /\ Came(down, Remaining(Answered(sent, handled), Len(results)), ~broken)
  BY <1>7, <1>8, <1>9, CameNone
<1>11. /\ \A i \in 1..Len(handled) : HandledOK(handled[i], sent[i], i)
       /\ \A i \in 1..Len(results) : ResultOK(results[i], handled[i].fixture, sent[i], i)
  BY <1>2
<1>12. Len(sent) <= MaxCalls /\ Len(handled) <= Len(sent) /\ Len(results) <= Len(handled)
  BY <1>1, <1>2, <1>4
<1> QED BY <1>1, <1>2, <1>3, <1>10, <1>11, <1>12 DEF SessionInv

\* The numbers of requests, of those handled and of those answered.
LEMMA Counts ==
    ASSUME SessionInv
    PROVE  /\ Len(sent) \in Nat /\ Len(handled) \in 0..Len(sent)
           /\ Len(results) \in 0..Len(handled)
           /\ \A i \in 1..Len(handled) : sent[i] \in Requests /\ i \in 1..Len(sent)
  BY DEF SessionInv

\* A call adds its packet to the stream to the server.
LEMMA AskStep ==
    ASSUME SessionInv, NEW r \in Requests, Ask(r)
    PROVE  SessionInv'
<1>1. /\ ~broken /\ Len(sent) < MaxCalls /\ sent' = Append(sent, r)
      /\ up' = up \o Packet(Msg(r), Len(sent'), Data(r))
      /\ UNCHANGED <<fixtures, down, broken, handled, results>>
  BY DEF Ask
<1>2. sent \in Seq(Requests) /\ handled \in Seq(Handlings) /\ Len(handled) <= Len(sent)
  BY DEF SessionInv
<1>3. /\ sent' \in Seq(Requests) /\ Len(sent') = Len(sent) + 1
      /\ \A i \in 1..Len(sent) : sent'[i] = sent[i]
  BY <1>1, <1>2
<1>4. Len(sent') <= MaxCalls /\ Len(handled') <= Len(sent')
  <2>1. MaxCalls \in Nat
    BY SessionAssumption
  <2> QED BY <1>1, <1>2, <1>3, <2>1
<1> DEFINE k == Len(handled)
           a == Asked(sent)
           x == Packet(Msg(r), Len(sent) + 1, Data(r))
<1>5. a \in Seq(Bytes) /\ Len(a) = Len(sent) /\ x \in Bytes /\ Asked(sent') = Append(a, x)
  BY <1>1, <1>2, AskedIs
<1>6. up' = up \o x
  BY <1>1, <1>3
<1>7. Came(up, Remaining(a, k), TRUE)
  <2>1. Came(up, Remaining(a, k), ~broken)
    BY DEF SessionInv
  <2> QED BY <1>1, <2>1 DEF Came
<1> HIDE DEF a, x
<1>8. k \in 0..Len(a)
  BY <1>5, Counts
<1>9. Remaining(a, k) \in Seq(Bytes) /\ Remaining(Append(a, x), k) = Append(Remaining(a, k), x)
  BY <1>5, <1>8, RemainingAppend
<1>10. Came(up \o x, Append(Remaining(a, k), x), TRUE)
  BY <1>5, <1>7, <1>9, CameMore
<1>11. Came(up', Remaining(Asked(sent'), Len(handled')), ~broken')
  <2>1. k = Len(handled') /\ (~broken') = TRUE
    BY <1>1
  <2> HIDE DEF k
  <2>2. Came(up', Remaining(Asked(sent'), k), TRUE)
    BY <1>5, <1>6, <1>9, <1>10, Zenon
  <2> QED BY <2>1, <2>2
<1>12. Came(down', Remaining(Answered(sent', handled'), Len(results')), ~broken')
  <2>1. Answered(sent', handled) = Answered(sent, handled)
    BY <1>1, <1>2, AnsweredSame
  <2>2. Came(down, Remaining(Answered(sent, handled), Len(results)), ~broken)
    BY DEF SessionInv
  <2> QED BY <1>1, <2>1, <2>2
<1>13. ASSUME NEW i \in 1..Len(handled') PROVE HandledOK(handled'[i], sent'[i], i)
  <2>1. handled' = handled /\ sent'[i] = sent[i]
    BY <1>1, <1>3, Counts
  <2>2. HandledOK(handled[i], sent[i], i)
    BY <1>1 DEF SessionInv
  <2> QED BY <2>1, <2>2
<1>14. ASSUME NEW i \in 1..Len(results') PROVE ResultOK(results'[i], handled'[i].fixture, sent'[i], i)
  <2>1. i \in 1..Len(handled)
    BY <1>1, Counts
  <2>2. handled' = handled /\ results' = results /\ sent'[i] = sent[i]
    BY <1>1, <1>3, <2>1, Counts
  <2>3. ResultOK(results[i], handled[i].fixture, sent[i], i)
    BY <1>1 DEF SessionInv
  <2> QED BY <2>2, <2>3
<1>15. /\ fixtures' \in Seq(AllFixtures) /\ broken' \in BOOLEAN
       /\ handled' \in Seq(Handlings) /\ results' \in Seq(Results) /\ Len(results') <= Len(handled')
  BY <1>1 DEF SessionInv
<1> QED BY <1>3, <1>4, <1>11, <1>12, <1>13, <1>14, <1>15 DEF SessionInv

\* A break leaves the beginning of what is on its way.
LEMMA BreakStep ==
    ASSUME SessionInv, NEW m \in 0..Len(up), NEW n \in 0..Len(down), Break(m, n)
    PROVE  SessionInv'
<1>1. /\ broken' = TRUE /\ up' = SubSeq(up, 1, m) /\ down' = SubSeq(down, 1, n)
      /\ UNCHANGED <<fixtures, sent, handled, results>>
  BY DEF Break
<1>2. sent \in Seq(Requests) /\ handled \in Seq(Handlings) /\ Len(handled) <= Len(sent)
  BY DEF SessionInv
<1> DEFINE a == Remaining(Asked(sent), Len(handled))
           b == Remaining(Answered(sent, handled), Len(results))
<1>3. a \in Seq(Bytes) /\ b \in Seq(Bytes)
  <2>1. Asked(sent) \in Seq(Bytes) /\ Len(Asked(sent)) = Len(sent)
    BY <1>2, AskedIs
  <2>2. Answered(sent, handled) \in Seq(Bytes) /\ Len(Answered(sent, handled)) = Len(handled)
    BY <1>2, AnsweredIs
  <2>3. \A q \in Seq(Bytes) : \A k \in 0..Len(q) : Remaining(q, k) \in Seq(Bytes)
    <3>1. <<>> \in Bytes
      BY DEF Bytes
    <3> QED BY <3>1, RemainingAppend
  <2>4. Len(handled) \in 0..Len(Asked(sent)) /\ Len(results) \in 0..Len(Answered(sent, handled))
    BY <2>1, <2>2, Counts
  <2> QED BY <2>1, <2>2, <2>3, <2>4
<1>4. Came(up, a, ~broken) /\ Came(down, b, ~broken)
  BY DEF SessionInv
<1> HIDE DEF a, b
<1>5. Came(SubSeq(up, 1, m), a, FALSE) /\ Came(SubSeq(down, 1, n), b, FALSE)
  BY <1>3, <1>4, CameCut
<1>6. /\ Came(up', Remaining(Asked(sent'), Len(handled')), ~broken')
      /\ Came(down', Remaining(Answered(sent', handled'), Len(results')), ~broken')
  BY <1>1, <1>5 DEF a, b
<1>7. /\ \A i \in 1..Len(handled') : HandledOK(handled'[i], sent'[i], i)
      /\ \A i \in 1..Len(results') : ResultOK(results'[i], handled'[i].fixture, sent'[i], i)
  BY <1>1 DEF SessionInv
<1>8. /\ sent' \in Seq(Requests) /\ Len(sent') <= MaxCalls /\ fixtures' \in Seq(AllFixtures)
      /\ broken' \in BOOLEAN /\ handled' \in Seq(Handlings) /\ Len(handled') <= Len(sent')
      /\ results' \in Seq(Results) /\ Len(results') <= Len(handled')
  BY <1>1 DEF SessionInv
<1> QED BY <1>6, <1>7, <1>8 DEF SessionInv

\* The first fixture with the bytes of a request, and the fixtures behind its
\* trigger.
LEMMA FixtureFound ==
    ASSUME fixtures \in Seq(AllFixtures), NEW msg, NEW data, Matching(msg, data) # {}
    PROVE  LET i == Min(Matching(msg, data))
           IN  /\ fixtures[i] \in AllFixtures /\ fixtures[i] # Nil
               /\ fixtures[i].request = data
               /\ AfterTrigger(i) \in Seq(AllFixtures)
<1> DEFINE T == Matching(msg, data)
           i == Min(T)
<1>1. T \in SUBSET Nat /\ DOMAIN fixtures = 1..Len(fixtures) /\ Len(fixtures) \in Nat
  BY DEF Matching
<1>2. i \in T
  <2>0. T # {}
    OBVIOUS
  <2> HIDE DEF T
  <2>1. PICK x \in T : \A y \in T : x <= y
    BY <1>1, <2>0, Least
  <2> QED BY <2>1 DEF Min
<1>3. i \in 1..Len(fixtures) /\ fixtures[i].request = data
  <2>1. i \in {j \in DOMAIN fixtures : fixtures[j].msg = msg /\ fixtures[j].request = data}
    BY <1>2, Zenon DEF Matching
  <2> HIDE DEF i
  <2> QED BY <1>1, <2>1
<1> HIDE DEF i
<1>4. fixtures[i] \in AllFixtures
  BY <1>3
<1>5. fixtures[i] # Nil
  BY <1>4, SessionAssumption, Zenon DEF MadeFixture
<1>6. AfterTrigger(i) \in Seq(AllFixtures)
  <2> DEFINE a == SubSeq(fixtures, 1, i - 1)
             b == SubSeq(fixtures, i + 1, Len(fixtures))
  <2>1. a \in Seq(AllFixtures) /\ b \in Seq(AllFixtures)
    BY <1>3
  <2> HIDE DEF a, b
  <2>2. a \o b \in Seq(AllFixtures)
    BY <2>1
  <2>3. RemoveAt(fixtures, i) = a \o b
    BY Zenon DEF RemoveAt, a, b
  <2> HIDE DEF AllFixtures
  <2> QED BY <2>2, <2>3, Zenon DEF AfterTrigger
<1> QED BY <1>3, <1>4, <1>5, <1>6, Zenon DEF i, T

\* What the server makes of a packet that is there.
LEMMA HandleStep ==
    ASSUME fixtures \in Seq(AllFixtures), NEW r \in Requests, NEW p, p.msg = Msg(r),
           p.data = Data(r), p.sync \in Nat, sent[p.sync] = r, Handle(p)
    PROVE  \E h \in Handlings :
              /\ handled' = Append(handled, h) /\ HandledOK(h, r, p.sync)
              /\ fixtures' \in Seq(AllFixtures)
              /\ down' = IF broken THEN down
                         ELSE down \o Packet(Msg(r), p.sync, AnswerBody(h.fixture))
<1> DEFINE found == Matching(p.msg, p.data)
           i == Min(found)
           f == IF found = {} THEN Nil ELSE fixtures[i]
           u == IF found = {} THEN Unpacked(p, sent[p.sync]) ELSE Nil
           h == [sync |-> p.sync, fixture |-> f, read |-> u]
           body == IF found = {} THEN NotFound ELSE fixtures[i].response
<1>1. /\ fixtures' = IF found = {} THEN fixtures ELSE AfterTrigger(i)
      /\ handled' = Append(handled, h)
      /\ down' = IF broken THEN down ELSE down \o Packet(p.msg, p.sync, body)
  BY Zenon DEF Handle
<1>2. CASE found = {}
  <2>1. f = Nil /\ body = AnswerBody(f) /\ fixtures' = fixtures
    BY <1>1, <1>2, Zenon DEF AnswerBody
  <2>2. u = [ok |-> TRUE, r |-> Arrives(r)]
    <3>1. u = Unpacked(p, r)
      BY <1>2, Zenon
    <3>2. RequestOK(r)
      BY RequestsOK
    <3>3. Unpacked(p, r) = [ok |-> TRUE, r |-> Arrives(r)]
      BY <3>2, Zenon DEF RequestOK
    <3> QED BY <3>1, <3>3, Zenon
  <2> HIDE DEF f, u, body
  <2>3. h.sync = p.sync /\ h.fixture = f /\ h.read = u
    OBVIOUS
  <2>4. u \in Readings
    BY <2>2 DEF Readings
  <2>5. h \in Handlings
    BY <2>1, <2>4 DEF Handlings
  <2>6. HandledOK(h, r, p.sync)
    BY <2>1, <2>2, <2>3 DEF HandledOK
  <2>7. fixtures' \in Seq(AllFixtures)
    BY <2>1
  <2>8. down' = IF broken THEN down
                ELSE down \o Packet(Msg(r), p.sync, AnswerBody(h.fixture))
    <3> HIDE DEF h
    <3> QED BY <1>1, <2>1, <2>3, Zenon
  <2>9. handled' = Append(handled, h)
    BY <1>1, Zenon DEF f, u
  <2> HIDE DEF h
  <2> QED BY <2>5, <2>6, <2>7, <2>8, <2>9, Zenon
<1>3. CASE found # {}
  <2>0. /\ fixtures[i] \in AllFixtures /\ fixtures[i] # Nil
        /\ fixtures[i].request = p.data
        /\ AfterTrigger(i) \in Seq(AllFixtures)
    BY <1>3, FixtureFound
  <2>1. f = fixtures[i] /\ body = f.response /\ u = Nil
    BY <1>3, Zenon
  <2>2. fixtures' \in Seq(AllFixtures)
    BY <1>1, <1>3, <2>0, Zenon
  <2>3. f \in AllFixtures /\ f # Nil /\ f.request = Data(r) /\ body = AnswerBody(f)
    BY <2>0, <2>1, Zenon DEF AnswerBody
  <2> HIDE DEF f, u, body
  <2>4. h.sync = p.sync /\ h.fixture = f /\ h.read = u
    OBVIOUS
  <2>5. h \in Handlings
    <3>1. u \in Readings
      BY <2>1 DEF Readings
    <3> HIDE DEF AllFixtures
    <3> QED BY <2>3, <3>1 DEF Handlings
  <2>6. HandledOK(h, r, p.sync)
    BY <2>3, <2>4 DEF HandledOK
  <2>7. down' = IF broken THEN down
                ELSE down \o Packet(Msg(r), p.sync, AnswerBody(h.fixture))
    <3> HIDE DEF h
    <3> QED BY <1>1, <2>3, <2>4, Zenon
  <2>8. handled' = Append(handled, h)
    BY <1>1, Zenon DEF f, u
  <2> HIDE DEF h
  <2> QED BY <2>2, <2>5, <2>6, <2>7, <2>8, Zenon
<1> QED BY <1>2, <1>3

\* A stream that is not empty has a packet in front of the others.
LEMMA FrontPacket ==
    ASSUME NEW d, d # <<>>, NEW ps \in Seq(Bytes), NEW k \in 0..Len(ps), NEW whole,
           Came(d, Remaining(ps, k), whole)
    PROVE  /\ k + 1 \in 1..Len(ps) /\ Remaining(ps, k + 1) \in Seq(Bytes)
           /\ Came(d, <<ps[k + 1]>> \o Remaining(ps, k + 1), whole)
<1>1. k # Len(ps)
  <2>1. Remaining(ps, Len(ps)) = <<>>
    BY RemainingNone
  <2> QED BY <2>1, CameNone
<1>2. k \in 0..Len(ps) - 1 /\ k + 1 \in 1..Len(ps)
  BY <1>1
<1>3. /\ Remaining(ps, k + 1) \in Seq(Bytes)
      /\ Remaining(ps, k) = <<ps[k + 1]>> \o Remaining(ps, k + 1)
  BY <1>2, RemainingNext
<1> QED BY <1>2, <1>3, Zenon

\* The server reads the next request, or ends the connection.
LEMMA ServerReadStep ==
    ASSUME SessionInv, ServerRead
    PROVE  SessionInv'
<1> DEFINE p == TakePacket(up, SizeLimit)
           k == Len(handled)
           a == Asked(sent)
           c == Answered(sent, handled)
           n == Len(results)
<1>1. up # <<>> /\ UNCHANGED <<sent, results>>
  BY DEF ServerRead
<1>2. /\ p.ok => Handle(p) /\ up' = p.rest /\ broken' = broken
      /\ ~p.ok => up' = <<>> /\ broken' = TRUE /\ UNCHANGED <<fixtures, handled, down>>
  BY Zenon DEF ServerRead
<1>3. /\ sent \in Seq(Requests) /\ Len(sent) <= MaxCalls /\ fixtures \in Seq(AllFixtures)
      /\ broken \in BOOLEAN /\ handled \in Seq(Handlings) /\ k <= Len(sent)
      /\ results \in Seq(Results) /\ n <= k /\ k \in 0..Len(sent) /\ n \in 0..k
      /\ Came(up, Remaining(a, k), ~broken) /\ Came(down, Remaining(c, n), ~broken)
  BY Counts DEF SessionInv
<1>4. /\ \A i \in 1..k : HandledOK(handled[i], sent[i], i)
      /\ \A i \in 1..n : ResultOK(results[i], handled[i].fixture, sent[i], i)
  BY DEF SessionInv
<1>5. a \in Seq(Bytes) /\ Len(a) = Len(sent) /\ c \in Seq(Bytes) /\ Len(c) = k
      /\ \A i \in 1..Len(sent) : a[i] = Packet(Msg(sent[i]), i, Data(sent[i]))
  BY <1>3, AskedIs, AnsweredIs
<1> HIDE DEF a, c
<1>6. Remaining(a, k) \in Seq(Bytes) /\ Remaining(c, n) \in Seq(Bytes)
  <2>1. <<>> \in Bytes
    BY DEF Bytes
  <2>2. k \in 0..Len(a) /\ n \in 0..Len(c)
    BY <1>3, <1>5
  <2> QED BY <1>5, <2>1, <2>2, RemainingAppend
<1>7. CASE ~p.ok
  <2>1. /\ up' = <<>> /\ broken' = TRUE
        /\ UNCHANGED <<fixtures, handled, down, sent, results>>
    BY <1>1, <1>2, <1>7
  <2>2. Came(<<>>, Remaining(a, k), FALSE) /\ Came(down, Remaining(c, n), FALSE)
    BY <1>3, <1>6, CameBroken
  <2>3. /\ Came(up', Remaining(Asked(sent'), Len(handled')), ~broken')
        /\ Came(down', Remaining(Answered(sent', handled'), Len(results')), ~broken')
    BY <2>1, <2>2 DEF a, c
  <2>4. /\ \A i \in 1..Len(handled') : HandledOK(handled'[i], sent'[i], i)
        /\ \A i \in 1..Len(results') : ResultOK(results'[i], handled'[i].fixture, sent'[i], i)
    BY <1>4, <2>1
  <2>5. /\ sent' \in Seq(Requests) /\ Len(sent') <= MaxCalls /\ fixtures' \in Seq(AllFixtures)
        /\ broken' \in BOOLEAN /\ handled' \in Seq(Handlings) /\ Len(handled') <= Len(sent')
        /\ results' \in Seq(Results) /\ Len(results') <= Len(handled')
    BY <1>3, <2>1
  <2> QED BY <2>3, <2>4, <2>5 DEF SessionInv
<1>8. CASE p.ok
  <2> DEFINE j == k + 1
             r == sent[j]
             ws == Remaining(a, j)
  <2>1. /\ j \in 1..Len(a) /\ ws \in Seq(Bytes)
        /\ Came(up, <<a[j]>> \o ws, ~broken)
    <3>1. k \in 0..Len(a)
      BY <1>3, <1>5
    <3> HIDE DEF k
    <3> QED BY <1>1, <1>3, <1>5, <3>1, FrontPacket
  <2>2. j \in 1..Len(sent) /\ r \in Requests /\ j \in Nat /\ a[j] = Packet(Msg(r), j, Data(r))
    BY <1>3, <1>5, <2>1
  <2>3. Sendable(Msg(r), j, Data(r))
    <3>1. j < Limit(4)
      <4>1. MaxCalls \in Nat /\ MaxCalls < Limit(4) /\ Limit(4) \in Nat
        BY SessionAssumption, Codes
      <4> QED BY <1>3, <2>2, <4>1
    <3>2. RequestOK(r)
      BY <2>2, RequestsOK
    <3> HIDE DEF r, j
    <3> QED BY <2>2, <3>1, <3>2 DEF RequestOK, Sendable
  <2> HIDE DEF ws, r, j
  <2>4. Came(up, <<Packet(Msg(r), j, Data(r))>> \o ws, ~broken)
    BY <2>1, <2>2, Zenon
  <2>5. /\ p.msg = Msg(r) /\ p.sync = j /\ p.data = Data(r)
        /\ Came(p.rest, ws, ~broken)
    BY <1>8, <2>1, <2>3, <2>4, CamePacket
  <2>6. Handle(p) /\ up' = p.rest /\ broken' = broken /\ sent[p.sync] = r /\ p.sync \in Nat
    BY <1>2, <1>8, <2>2, <2>5 DEF r
  <2> HIDE DEF p
  <2>7. PICK h \in Handlings :
              /\ handled' = Append(handled, h) /\ HandledOK(h, r, j)
              /\ fixtures' \in Seq(AllFixtures)
              /\ down' = IF broken THEN down
                         ELSE down \o Packet(Msg(r), j, AnswerBody(h.fixture))
    BY <1>3, <2>2, <2>5, <2>6, HandleStep
  <2> DEFINE y == Packet(Msg(r), j, AnswerBody(h.fixture))
  <2>8. /\ handled' \in Seq(Handlings) /\ Len(handled') = j /\ handled'[j] = h
        /\ \A i \in 1..k : handled'[i] = handled[i]
    BY <1>3, <2>7 DEF j
  <2>9. y \in Bytes /\ Answered(sent, handled') = Append(c, y)
    <3>1. Len(handled) < Len(sent)
      BY <1>3, <2>2 DEF j
    <3>2. LET z == Packet(Msg(sent[Len(handled) + 1]), Len(handled) + 1, AnswerBody(h.fixture))
          IN  /\ z \in Bytes
              /\ Answered(sent, Append(handled, h)) = Append(Answered(sent, handled), z)
      BY <1>3, <3>1, AnsweredNext
    <3> QED BY <2>7, <3>2, Zenon DEF j, r, c
  <2> HIDE DEF y
  <2>10. Remaining(Append(c, y), n) = Append(Remaining(c, n), y)
    <3>1. n \in 0..Len(c)
      BY <1>3, <1>5
    <3> QED BY <1>5, <2>9, <3>1, RemainingAppend
  <2>11. Came(down', Append(Remaining(c, n), y), ~broken)
    <3>1. CASE broken
      <4>1. down' = down /\ (~broken) = FALSE
        BY <2>7, <3>1
      <4>2. Came(down, Remaining(c, n), FALSE)
        BY <1>3, <4>1
      <4>3. Came(down, Append(Remaining(c, n), y), FALSE)
        BY <1>6, <2>9, <4>2, CameLate
      <4> QED BY <4>1, <4>3
    <3>2. CASE ~broken
      <4>1. down' = down \o y /\ (~broken) = TRUE
        BY <2>7, <3>2, Zenon DEF y
      <4>2. Came(down, Remaining(c, n), TRUE)
        BY <1>3, <4>1
      <4>3. Came(down \o y, Append(Remaining(c, n), y), TRUE)
        BY <1>6, <2>9, <4>2, CameMore
      <4>4. Came(down', Append(Remaining(c, n), y), TRUE)
        BY <4>1, <4>3, Zenon
      <4> QED BY <4>1, <4>4
    <3> QED BY <3>1, <3>2
  <2>12. Came(down', Remaining(Answered(sent', handled'), Len(results')), ~broken')
    <3>1. Answered(sent', handled') = Append(c, y) /\ results' = results /\ broken' = broken
      BY <1>1, <2>6, <2>9
    <3> QED BY <2>10, <2>11, <3>1
  <2>13. Came(up', Remaining(Asked(sent'), Len(handled')), ~broken')
    <3>1. Asked(sent') = a /\ Len(handled') = j /\ up' = p.rest /\ broken' = broken
      BY <1>1, <2>6, <2>8 DEF a
    <3> QED BY <2>5, <3>1 DEF ws
  <2>14. ASSUME NEW i \in 1..Len(handled') PROVE HandledOK(handled'[i], sent'[i], i)
    <3>1. CASE i \in 1..k
      BY <1>1, <1>4, <2>8, <3>1
    <3>2. CASE ~(i \in 1..k)
      <4>1. i = j
        BY <1>3, <2>8, <3>2 DEF j
      <4> QED BY <1>1, <2>7, <2>8, <4>1 DEF r
    <3> QED BY <3>1, <3>2
  <2>15. ASSUME NEW i \in 1..Len(results')
         PROVE  ResultOK(results'[i], handled'[i].fixture, sent'[i], i)
    <3>1. i \in 1..n /\ i \in 1..k /\ results' = results /\ sent' = sent
      BY <1>1, <1>3
    <3>2. handled'[i] = handled[i]
      BY <2>8, <3>1
    <3> QED BY <1>4, <3>1, <3>2
  <2>16. Len(handled') <= Len(sent') /\ Len(results') <= Len(handled')
    <3>1. Len(sent') = Len(sent) /\ Len(results') = n /\ Len(handled') = k + 1
      BY <1>1, <2>8 DEF j
    <3> QED BY <1>3, <2>2, <3>1 DEF j
  <2>17. /\ sent' \in Seq(Requests) /\ Len(sent') <= MaxCalls /\ results' \in Seq(Results)
         /\ broken' \in BOOLEAN
    BY <1>1, <1>3, <2>6
  <2> QED BY <2>7, <2>8, <2>12, <2>13, <2>14, <2>15, <2>16, <2>17 DEF SessionInv
<1> QED BY <1>7, <1>8

\* The client reads the next answer, or ends the connection.
LEMMA ClientReadStep ==
    ASSUME SessionInv, ClientRead
    PROVE  SessionInv'
<1> DEFINE p == TakePacket(down, SizeLimit)
           k == Len(handled)
           a == Asked(sent)
           c == Answered(sent, handled)
           n == Len(results)
           fl == Flagged(sent[p.sync])
           x == [sync |-> p.sync, resp |-> ProcessResp(p.data, fl, fl)]
<1>1. down # <<>> /\ UNCHANGED <<fixtures, sent, up, handled>>
  BY DEF ClientRead
<1>2. /\ p.ok => results' = Append(results, x) /\ down' = p.rest /\ broken' = broken
      /\ ~p.ok => down' = <<>> /\ broken' = TRUE /\ UNCHANGED results
  BY Zenon DEF ClientRead
<1>3. /\ sent \in Seq(Requests) /\ Len(sent) <= MaxCalls /\ fixtures \in Seq(AllFixtures)
      /\ broken \in BOOLEAN /\ handled \in Seq(Handlings) /\ k <= Len(sent)
      /\ results \in Seq(Results) /\ n <= k /\ k \in 0..Len(sent) /\ n \in 0..k
      /\ Came(up, Remaining(a, k), ~broken) /\ Came(down, Remaining(c, n), ~broken)
  BY Counts DEF SessionInv
<1>4. /\ \A i \in 1..k : HandledOK(handled[i], sent[i], i)
      /\ \A i \in 1..n : ResultOK(results[i], handled[i].fixture, sent[i], i)
  BY DEF SessionInv
<1>5. a \in Seq(Bytes) /\ Len(a) = Len(sent) /\ c \in Seq(Bytes) /\ Len(c) = k
      /\ \A i \in 1..k : c[i] = Packet(Msg(sent[i]), i, AnswerBody(handled[i].fixture))
  BY <1>3, AskedIs, AnsweredIs
<1> HIDE DEF a, c, x
<1>6. Remaining(a, k) \in Seq(Bytes) /\ Remaining(c, n) \in Seq(Bytes)
  <2>1. <<>> \in Bytes
    BY DEF Bytes
  <2>2. k \in 0..Len(a) /\ n \in 0..Len(c)
    BY <1>3, <1>5
  <2> QED BY <1>5, <2>1, <2>2, RemainingAppend
<1>7. CASE ~p.ok
  <2>1. /\ down' = <<>> /\ broken' = TRUE
        /\ UNCHANGED <<fixtures, handled, up, sent, results>>
    BY <1>1, <1>2, <1>7
  <2>2. Came(<<>>, Remaining(c, n), FALSE) /\ Came(up, Remaining(a, k), FALSE)
    BY <1>3, <1>6, CameBroken
  <2>3. /\ Came(up', Remaining(Asked(sent'), Len(handled')), ~broken')
        /\ Came(down', Remaining(Answered(sent', handled'), Len(results')), ~broken')
    BY <2>1, <2>2 DEF a, c
  <2>4. /\ \A i \in 1..Len(handled') : HandledOK(handled'[i], sent'[i], i)
        /\ \A i \in 1..Len(results') : ResultOK(results'[i], handled'[i].fixture, sent'[i], i)
    BY <1>4, <2>1
  <2>5. /\ sent' \in Seq(Requests) /\ Len(sent') <= MaxCalls /\ fixtures' \in Seq(AllFixtures)
        /\ broken' \in BOOLEAN /\ handled' \in Seq(Handlings) /\ Len(handled') <= Len(sent')
        /\ results' \in Seq(Results) /\ Len(results') <= Len(handled')
    BY <1>3, <2>1
  <2> QED BY <2>3, <2>4, <2>5 DEF SessionInv
<1>8. CASE p.ok
  <2> DEFINE j == n + 1
             r == sent[j]
             f == handled[j].fixture
             ws == Remaining(c, j)
  <2>1. /\ j \in 1..Len(c) /\ ws \in Seq(Bytes)
        /\ Came(down, <<c[j]>> \o ws, ~broken)
    <3>1. n \in 0..Len(c)
      BY <1>3, <1>5
    <3> HIDE DEF n
    <3> QED BY <1>1, <1>3, <1>5, <3>1, FrontPacket
  <2>2. /\ j \in 1..Len(sent) /\ j \in 1..k /\ r \in Requests /\ j \in Nat
        /\ c[j] = Packet(Msg(r), j, AnswerBody(f))
    BY <1>3, <1>5, <2>1
  <2>3. f \in AllFixtures \cup {Nil}
    <3>1. handled[j] \in Handlings
      BY <1>3, <2>2
    <3> QED BY <3>1 DEF Handlings
  <2> HIDE DEF ws, r, f, j
  <2>4. /\ AnswerBody(f) \in Seq(Nat) /\ Len(AnswerBody(f)) < Limit(4)
        /\ ProcessResp(AnswerBody(f), Flagged(r), Flagged(r)) = Expected(f, r)
    BY <2>3, ResponsesOK
  <2>5. Sendable(Msg(r), j, AnswerBody(f))
    <3>1. j < Limit(4)
      <4>1. MaxCalls \in Nat /\ MaxCalls < Limit(4) /\ Limit(4) \in Nat
        BY SessionAssumption, Codes
      <4> QED BY <1>3, <2>2, <4>1
    <3>2. RequestOK(r)
      BY <2>2, RequestsOK
    <3> QED BY <2>2, <2>4, <3>1, <3>2 DEF RequestOK, Sendable
  <2>6. Came(down, <<Packet(Msg(r), j, AnswerBody(f))>> \o ws, ~broken)
    BY <2>1, <2>2, Zenon
  <2>7. p.sync = j /\ p.data = AnswerBody(f) /\ Came(p.rest, ws, ~broken)
    BY <1>8, <2>1, <2>5, <2>6, CamePacket
  <2>8. results' = Append(results, x) /\ down' = p.rest /\ broken' = broken
    BY <1>2, <1>8
  <2>9. x.sync = j /\ x.resp = Expected(f, r)
    <3>1. fl = Flagged(r)
      BY <2>7, Zenon DEF r
    <3>2. x.sync = p.sync /\ x.resp = ProcessResp(p.data, fl, fl)
      BY DEF x
    <3> HIDE DEF p, fl
    <3> QED BY <2>4, <2>7, <3>1, <3>2, Zenon
  <2>10. x \in Results
    <3>1. Expected(f, r) \in Resps
      BY <2>2, <2>3 DEF Resps
    <3>2. x = [sync |-> x.sync, resp |-> x.resp]
      BY DEF x
    <3> QED BY <2>2, <2>9, <3>1, <3>2 DEF Results
  <2>11. /\ results' \in Seq(Results) /\ Len(results') = j /\ results'[j] = x
         /\ \A i \in 1..n : results'[i] = results[i]
    BY <1>3, <2>8, <2>10 DEF j
  <2>12. /\ Came(up', Remaining(Asked(sent'), Len(handled')), ~broken')
         /\ Came(down', Remaining(Answered(sent', handled'), Len(results')), ~broken')
    <3>1. /\ Asked(sent') = a /\ Answered(sent', handled') = c /\ handled' = handled
          /\ Len(results') = j /\ up' = up /\ down' = p.rest /\ broken' = broken
      BY <1>1, <2>8, <2>11 DEF a, c
    <3> QED BY <1>3, <2>7, <3>1 DEF ws
  <2>13. \A i \in 1..Len(handled') : HandledOK(handled'[i], sent'[i], i)
    BY <1>1, <1>4
  <2>14. ASSUME NEW i \in 1..Len(results')
         PROVE  ResultOK(results'[i], handled'[i].fixture, sent'[i], i)
    <3>1. CASE i \in 1..n
      BY <1>1, <1>4, <2>11, <3>1
    <3>2. CASE ~(i \in 1..n)
      <4>1. i = j
        BY <1>3, <2>11, <3>2 DEF j
      <4> QED BY <1>1, <2>9, <2>11, <4>1 DEF r, f, ResultOK
    <3> QED BY <3>1, <3>2
  <2>15. Len(results') <= Len(handled')
    BY <1>1, <2>2, <2>11
  <2>16. /\ sent' \in Seq(Requests) /\ Len(sent') <= MaxCalls /\ fixtures' \in Seq(AllFixtures)
         /\ broken' \in BOOLEAN /\ handled' \in Seq(Handlings) /\ Len(handled') <= Len(sent')
    BY <1>1, <1>3, <2>8
  <2> QED BY <2>11, <2>12, <2>13, <2>14, <2>15, <2>16 DEF SessionInv
<1> QED BY <1>7, <1>8

\* Every step of a session keeps the invariant.
LEMMA SessionSteps == SessionInv /\ [SessionNext]_sessionVars => SessionInv'
<1> SUFFICES ASSUME SessionInv, [SessionNext]_sessionVars PROVE SessionInv'
  OBVIOUS
<1>1. ASSUME NEW r \in Requests, Ask(r) PROVE SessionInv'
  BY <1>1, AskStep
<1>2. ASSUME NEW f \in FixtureSets, SetFixtures(f) PROVE SessionInv'
  <2>1. fixtures' \in Seq(AllFixtures)
    BY <1>2, SessionAssumption DEF SetFixtures
  <2>2. UNCHANGED <<sent, up, down, broken, handled, results>>
    BY <1>2 DEF SetFixtures
  <2> QED BY <2>1, <2>2 DEF SessionInv
<1>3. CASE ServerRead
  BY <1>3, ServerReadStep
<1>4. CASE ClientRead
  BY <1>4, ClientReadStep
<1>5. Len(up) \in Nat /\ Len(down) \in Nat
  BY DEF SessionInv, Came, Bytes
<1>6. \A l \in Nat : Min({MaxBreak, l}) \in Nat /\ Min({MaxBreak, l}) <= l
  <2> SUFFICES ASSUME NEW l \in Nat PROVE Min({MaxBreak, l}) \in Nat /\ Min({MaxBreak, l}) <= l
    OBVIOUS
  <2>1. MaxBreak \in Nat
    BY SessionAssumption
  <2>2. PICK e \in {MaxBreak, l} : \A y \in {MaxBreak, l} : e <= y
    BY <2>1
  <2>3. /\ Min({MaxBreak, l}) \in {MaxBreak, l}
        /\ \A y \in {MaxBreak, l} : Min({MaxBreak, l}) <= y
    BY <2>2 DEF Min
  <2> QED BY <2>1, <2>3
<1>7. ASSUME NEW m \in 0..Min({MaxBreak, Len(up)}), Break(m, Len(down)) PROVE SessionInv'
  <2>1. m \in 0..Len(up) /\ Len(down) \in 0..Len(down)
    BY <1>5, <1>6
  <2> QED BY <1>7, <2>1, BreakStep
<1>8. ASSUME NEW n \in 0..Min({MaxBreak, Len(down)}), Break(Len(up), n) PROVE SessionInv'
  <2>1. n \in 0..Len(down) /\ Len(up) \in 0..Len(up)
    BY <1>5, <1>6
  <2> QED BY <1>8, <2>1, BreakStep
<1>9. CASE UNCHANGED sessionVars
  BY <1>9 DEF sessionVars, SessionInv
<1> QED BY <1>1, <1>2, <1>3, <1>4, <1>7, <1>8, <1>9 DEF SessionNext

\* The streams carry what remains of the requests and of the answers.
THEOREM SessionInvHolds == SessionSpec => []SessionInv
<1>1. SessionInit => SessionInv
  BY SessionStarts
<1> QED BY <1>1, SessionSteps, PTL DEF SessionSpec

\* A request is what arrives of it, but for a mode that has come as its flag.
LEMMA ArrivesButMode == \A r \in Requests : ButMode(r, Arrives(r)) = AsRead(r)
<1> SUFFICES ASSUME NEW r \in Requests PROVE ButMode(r, Arrives(r)) = AsRead(r)
  OBVIOUS
<1>1. MadeRequest(r)
  BY SessionAssumption
<1>2. CASE r.kind = "insert"
  <2>1. r \in Inserts
    BY <1>1, <1>2 DEF MadeRequest, Selects, Updates, Deletes, Luas, IsUser
  <2>2. AsRead(r) = r
    BY <1>2 DEF AsRead
  <2>3. Arrives(r) = [r EXCEPT !.mode = IF r.mode = 0 THEN 0 ELSE Power(2, r.mode)]
    BY <1>2, <2>1 DEF Arrives, Inserts
  <2>4. ASSUME NEW m, NEW s, s = [r EXCEPT !.mode = m] PROVE [s EXCEPT !.mode = r.mode] = r
    BY <2>1, <2>4 DEF Inserts
  <2>5. r.mode = 0 => [r EXCEPT !.mode = 0] = r
    BY <2>1 DEF Inserts
  <2> QED BY <1>2, <2>2, <2>3, <2>4, <2>5, Zenon DEF ButMode
<1>3. CASE r.kind # "insert"
  BY <1>3 DEF Arrives, ButMode
<1> QED BY <1>2, <1>3

\* The server handles the first of the requests, whole and in their order, and reads
\* what the client had packed but for the mode of an insert (RequestsReadBack),
\* wherever the stream breaks.
THEOREM RequestsReadBackHolds == SessionSpec => []RequestsReadBack
<1>1. SessionInv => RequestsReadBack
  <2> SUFFICES ASSUME SessionInv, NEW i \in DOMAIN handled
               PROVE  /\ handled[i].sync = i
                      /\ handled[i].fixture = Nil =>
                             /\ handled[i].read.ok
                             /\ ButMode(sent[i], handled[i].read.r) = AsRead(sent[i])
                      /\ sent[i].kind \notin {"lua", "user"} =>
                             Len(Data(sent[i])) <= Capacity(sent[i])
    BY Zenon DEF RequestsReadBack
  <2>1. i \in 1..Len(handled)
    BY DEF SessionInv
  <2>2. HandledOK(handled[i], sent[i], i) /\ sent[i] \in Requests
    BY <2>1, Counts DEF SessionInv
  <2>3. RequestOK(sent[i]) /\ ButMode(sent[i], Arrives(sent[i])) = AsRead(sent[i])
    BY <2>2, RequestsOK, ArrivesButMode
  <2>4. ASSUME handled[i].fixture = Nil
        PROVE  handled[i].read.ok /\ handled[i].read.r = Arrives(sent[i])
    <3>1. handled[i].read = [ok |-> TRUE, r |-> Arrives(sent[i])]
      BY <2>2, <2>4, Zenon DEF HandledOK
    <3> QED BY <3>1
  <2> QED BY <2>2, <2>3, <2>4, Zenon DEF HandledOK, RequestOK
<1> QED BY <1>1, SessionInvHolds, PTL

\* The client gets the tuples of the fixture that had the bytes of its request, or
\* an error where there was none or the response was cut (AnswersReadBack).
THEOREM AnswersReadBackHolds == SessionSpec => []AnswersReadBack
<1>1. SessionInv => AnswersReadBack
  <2> SUFFICES ASSUME SessionInv, NEW i \in DOMAIN results
               PROVE  /\ results[i].sync = i
                      /\ results[i].resp = Expected(handled[i].fixture, sent[i])
                      /\ handled[i].fixture # Nil => handled[i].fixture.request = Data(sent[i])
    BY Zenon DEF AnswersReadBack
  <2>1. i \in 1..Len(results)
    BY DEF SessionInv
  <2>2. i \in 1..Len(handled)
    BY <2>1, Counts
  <2>3. HandledOK(handled[i], sent[i], i) /\ ResultOK(results[i], handled[i].fixture, sent[i], i)
    BY <2>1, <2>2 DEF SessionInv
  <2> QED BY <2>3, Zenon DEF HandledOK, ResultOK
<1> QED BY <1>1, SessionInvHolds, PTL
=============================================================================
