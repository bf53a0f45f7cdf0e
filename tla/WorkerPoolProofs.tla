--------------------------- MODULE WorkerPoolProofs ---------------------------
(* What WorkerPool.tla states of the pool of goroutines, proved for any number *)
(* of tasks, waiters and workers and any queue.                                *)
EXTENDS WorkerPool, FiniteSetTheorems, SequenceTheorems, TLAPS

-----------------------------------------------------------------------------
(* The inductive invariant *)

In(s, e) == \E i \in 1..Len(s) : s[i] = e
IsRun(s) == \E w \in Workers : cur[w] = s
Closing3 == cpc \in {"fill", "drain", "closed"}

PoolTypes ==
    /\ work \in Seq(Items) /\ Len(work) <= WorkQueueSize
    /\ sem \in Int
    /\ list \in Seq(Workers)
    /\ mode \in [Workers -> {"none", "loop", "drain", "cork", "released", "gone"}]
    /\ cur \in [Workers -> Tasks \cup Waiters \cup {None}]
    /\ direct \in [Workers -> Waiters \cup {STUB, None}]
    /\ spc \in [Tasks -> {"idle", "select", "spawn", "returned"}]
    /\ ret \in [Tasks -> {"ok", "error", None}]
    /\ cpc \in {"open", "wait", "fill", "drain", "closed"}
    /\ count \in Nat
    /\ xpc \in [Waiters -> {"idle", "send", "cross", "multicast", "returned"}]
    /\ xret \in [Waiters -> {"ok", "error", None}]
    /\ crossed \in [Waiters -> BOOLEAN]
    /\ todo \in [Waiters -> Seq(Workers)]
    /\ need \in [Waiters -> Nat]
    /\ snap \in [Waiters -> {0, 1}]
    /\ expired \in [Waiters -> {"no", "yes", "taken"}]
    /\ before \in [Waiters -> SUBSET Tasks] /\ finished \in SUBSET Tasks

\* A worker that has a task or is busy with its queues is in the list, and no
\* stub is where a worker would run it.
WorkersOK ==
    /\ \A w \in Workers : cur[w] # None => Alive(w)
    /\ \A w \in Workers : direct[w] = STUB => DoneClosed(w)
    /\ \A w \in Workers : Alive(w) => In(list, w)
    /\ \A s \in Tasks : mode[s] # "none" => spc[s] = "returned"
    /\ In(work, STUB) => Closing3

Stubs(q) == {i \in 1..Len(q) : q[i] = STUB}

\* Behind p.wg.Wait no worker lives; the stubs that cork() has put are in the
\* queue until it begins to drain it.
ClosingOK ==
    /\ Closing3 => \A w \in Workers : ~Alive(w)
    /\ cpc \in {"fill", "drain"} => ~NoCork
    /\ cpc = "fill" => count < WorkQueueSize /\ count <= Cardinality(Stubs(work))
    /\ cpc = "drain" => count \in 1..WorkQueueSize
    /\ cpc = "wait" => count = 0
    /\ cpc = "open" => count = 0
    /\ cpc = "closed" /\ ~NoCork => Len(work) = WorkQueueSize /\ \A i \in 1..Len(work) : work[i] = STUB

\* A task that was accepted is in the queue, in a worker or executed.
AcceptedOK == \A s \in Tasks : ret[s] = "ok" => s \in finished \/ IsRun(s) \/ In(work, s)

AnsweredOK == \A s \in Tasks : ret[s] = "ok" => spc[s] = "returned"

\* What a waiter still has to wait for, at each of its program points: ahead of
\* the bound task in the queue, in a worker that has to be sent to, or ahead of
\* the barrier task in the worker's hands.
SendOK(x) ==
    /\ xpc[x] = "send" => \A s \in before[x] : ret[s] = "ok"
    /\ xpc[x] \in {"idle", "send"} => ~crossed[x] /\ ~In(work, x)

CrossOK(x) ==
    /\ xpc[x] = "cross" /\ ~crossed[x] =>
          \A i \in 1..Len(work) : work[i] = x =>
             \A s \in before[x] : s \in finished \/ IsRun(s) \/ \E j \in 1..i : work[j] = s
    /\ xpc[x] = "cross" /\ crossed[x] => \A s \in before[x] : s \in finished \/ IsRun(s)

CastOK(x) ==
    xpc[x] = "multicast" =>
       \A s \in before[x] :
          s \in finished \/ \E w \in Workers : cur[w] = s /\ (In(todo[x], w) \/ direct[w] = x)

ResultOK(x) ==
    /\ xret[x] = "ok" => xpc[x] = "returned"
    /\ xret[x] = "ok" /\ ~NoCork => before[x] \subseteq finished

\* The barrier tasks of a waiter that were not answered, in the direct queues
\* and in the hands of workers: it waits for as many answers at least.
Sent(x) == {w \in Workers : direct[w] = x}
Held(x) == {w \in Workers : cur[w] = x}
NeedOK(x) == need[x] >= Cardinality(Sent(x)) + Cardinality(Held(x)) + snap[x]

WaitOK(x) == SendOK(x) /\ CrossOK(x) /\ CastOK(x) /\ ResultOK(x) /\ NeedOK(x)

PoolInv ==
    /\ PoolTypes /\ WorkersOK /\ ClosingOK /\ AcceptedOK /\ AnsweredOK
    /\ TokensAccounted
    /\ \A x \in Waiters : WaitOK(x)

-----------------------------------------------------------------------------
(* Sequences and finite sets *)

\* What is in a sequence with one more element.
LEMMA AppendIn ==
    ASSUME NEW S, NEW s \in Seq(S), NEW e \in S
    PROVE  /\ Append(s, e) \in Seq(S) /\ Len(Append(s, e)) = Len(s) + 1
           /\ \A i \in 1..Len(s) : Append(s, e)[i] = s[i]
           /\ Append(s, e)[Len(s) + 1] = e
           /\ \A a : In(Append(s, e), a) <=> In(s, a) \/ a = e
<1>1. /\ Append(s, e) \in Seq(S) /\ Len(Append(s, e)) = Len(s) + 1 /\ Len(s) \in Nat
      /\ \A i \in 1..Len(s) : Append(s, e)[i] = s[i]
      /\ Append(s, e)[Len(s) + 1] = e
  BY AppendProperties, LenProperties
<1>2. \A a : In(Append(s, e), a) <=> In(s, a) \/ a = e
  BY <1>1 DEF In
<1> QED BY <1>1, <1>2

\* What is in a sequence without its first element.
LEMMA TailIn ==
    ASSUME NEW S, NEW s \in Seq(S), s # <<>>
    PROVE  /\ Tail(s) \in Seq(S) /\ Len(Tail(s)) = Len(s) - 1 /\ Len(s) \in Nat \ {0}
           /\ \A i \in 1..Len(s) - 1 : Tail(s)[i] = s[i + 1]
           /\ Head(s) = s[1] /\ Head(s) \in S
           /\ \A a : In(s, a) <=> In(Tail(s), a) \/ a = Head(s)
<1>1. /\ Tail(s) \in Seq(S) /\ Len(Tail(s)) = Len(s) - 1 /\ Head(s) \in S
      /\ \A i \in 1..Len(s) - 1 : Tail(s)[i] = s[i + 1]
  BY HeadTailProperties
<1>2. Len(s) \in Nat \ {0} /\ Head(s) = s[1]
  BY EmptySeq, LenProperties
<1>3. \A a : In(s, a) <=> In(Tail(s), a) \/ a = Head(s)
  <2>1. ASSUME NEW a, In(s, a) PROVE In(Tail(s), a) \/ a = Head(s)
    <3>1. PICK i \in 1..Len(s) : s[i] = a
      BY <2>1 DEF In
    <3>2. CASE i = 1
      BY <1>2, <3>1, <3>2
    <3>3. CASE i # 1
      <4>1. i - 1 \in 1..Len(s) - 1 /\ Tail(s)[i - 1] = a
        BY <1>1, <1>2, <3>1, <3>3
      <4> QED BY <1>1, <4>1 DEF In
    <3> QED BY <3>2, <3>3
  <2>2. ASSUME NEW a, In(Tail(s), a) \/ a = Head(s) PROVE In(s, a)
    <3>1. CASE In(Tail(s), a)
      <4>1. PICK i \in 1..Len(s) - 1 : Tail(s)[i] = a
        BY <1>1, <3>1 DEF In
      <4>2. i + 1 \in 1..Len(s) /\ s[i + 1] = a
        BY <1>1, <1>2, <4>1
      <4> QED BY <4>2 DEF In
    <3>2. CASE a = Head(s)
      BY <1>2, <3>2 DEF In
    <3> QED BY <2>2, <3>1, <3>2
  <2> QED BY <2>1, <2>2
<1> QED BY <1>1, <1>2, <1>3

\* The removal of one element keeps the others.
LEMMA RemoveIn ==
    ASSUME NEW S, NEW s \in Seq(S), NEW i \in 1..Len(s)
    PROVE  /\ RemoveAt(s, i) \in Seq(S)
           /\ \A a : In(s, a) /\ a # s[i] => In(RemoveAt(s, i), a)
<1> DEFINE b == SubSeq(s, 1, i - 1)
           c == SubSeq(s, i + 1, Len(s))
<1>1. Len(s) \in Nat /\ \A j \in 1..Len(s) : s[j] \in S
  BY LenProperties, ElementOfSeq
<1>2. /\ b \in Seq(S) /\ Len(b) = i - 1
      /\ \A j \in 1..i - 1 : b[j] = s[j]
  <2>1. \A j \in 1..i - 1 : s[j] \in S
    BY <1>1
  <2> QED BY <1>1, <2>1, SubSeqProperties
<1>3. /\ c \in Seq(S) /\ Len(c) = Len(s) - i
      /\ \A j \in 1..Len(s) - i : c[j] = s[i + j]
  <2>1. \A j \in i + 1..Len(s) : s[j] \in S
    BY <1>1
  <2> QED BY <1>1, <2>1, SubSeqProperties
<1>4. RemoveAt(s, i) = b \o c
  BY DEF RemoveAt
<1> HIDE DEF b, c
<1>5. /\ b \o c \in Seq(S) /\ Len(b \o c) = Len(b) + Len(c)
      /\ \A j \in 1..Len(b) + Len(c) : (b \o c)[j] = IF j <= Len(b) THEN b[j] ELSE c[j - Len(b)]
  BY <1>2, <1>3, ConcatProperties, Zenon
<1>6. ASSUME NEW a, In(s, a), a # s[i] PROVE In(b \o c, a)
  <2>1. PICK j \in 1..Len(s) : s[j] = a
    BY <1>6 DEF In
  <2>2. CASE j < i
    <3>1. j \in 1..Len(b) + Len(c) /\ (b \o c)[j] = a
      BY <1>1, <1>2, <1>3, <1>5, <2>1, <2>2
    <3> QED BY <1>5, <3>1 DEF In
  <2>3. CASE j > i
    <3>1. j - 1 \in 1..Len(b) + Len(c) /\ (b \o c)[j - 1] = c[j - i]
      BY <1>1, <1>2, <1>3, <1>5, <2>3
    <3>2. c[j - i] = a
      BY <1>1, <1>3, <2>1, <2>3
    <3> QED BY <1>5, <3>1, <3>2 DEF In
  <2> QED BY <1>6, <2>1, <2>2, <2>3
<1> QED BY <1>4, <1>5, <1>6

\* Nothing is in the empty queue.
LEMMA EmptyIn == \A a : ~In(<<>>, a)
BY DEF In

USE PoolAssumption DEF Workers, Items

\* Sets of workers are finite.
LEMMA WorkersFinite ==
    /\ IsFiniteSet(Unstoppable) /\ IsFiniteSet(Tasks)
    /\ \A S \in SUBSET Workers : IsFiniteSet(S) /\ Cardinality(S) \in Nat
<1>1. \A S \in SUBSET Workers : IsFiniteSet(S)
  BY FS_Subset, Zenon DEF PoolAssumption
<1>2. Unstoppable \in SUBSET Workers /\ Tasks \in SUBSET Workers
  OBVIOUS
<1> QED BY <1>1, <1>2, FS_CardinalityType

\* The list that New builds has every worker that never stops.
LEMMA NewList ==
    /\ SetToSeq(Unstoppable) \in Seq(Unstoppable)
    /\ \A w \in Unstoppable : In(SetToSeq(Unstoppable), w)
<1> DEFINE n == Cardinality(Unstoppable)
           f == SetToSeq(Unstoppable)
<1>1. IsFiniteSet(Unstoppable) /\ n \in Nat /\ ExistsBijection(1..n, Unstoppable)
  BY WorkersFinite, FS_CardinalityType, Zenon
<1>2. \E g \in [1..n -> Unstoppable] : IsInjective(g)
  <2>1. PICK g : g \in Bijection(1..n, Unstoppable)
    BY <1>1, Zenon DEF ExistsBijection
  <2>2. g \in [1..n -> Unstoppable] /\ IsInjective(g)
    BY <2>1 DEF Bijection, Injection, Surjection, IsInjective
  <2> QED BY <2>2
<1>3. f \in [1..n -> Unstoppable] /\ IsInjective(f)
  BY <1>2, Zenon DEF SetToSeq
<1> HIDE DEF f
<1>4. f \in Surjection(1..n, Unstoppable)
  <2>1. f \in Injection(1..n, Unstoppable)
    BY <1>3 DEF Injection, IsInjective
  <2>2. IsFiniteSet(1..n) /\ Cardinality(1..n) = n
    BY <1>1, FS_Interval
  <2>3. Cardinality(1..n) = Cardinality(Unstoppable)
    BY <2>2
  <2> QED BY <1>1, <2>1, <2>3, FS_Injection
<1>5. f \in Seq(Unstoppable) /\ Len(f) = n
  BY <1>1, <1>3, IsASeq, LenProperties
<1>6. \A w \in Unstoppable : In(f, w)
  BY <1>4, <1>5 DEF Surjection, In
<1> QED BY <1>5, <1>6 DEF f

-----------------------------------------------------------------------------
(* Types *)

\* What a send to the work queue does: the buffer gets the item, or a worker
\* that lives and has no task gets it.
PutInto(i) ==
    \/ /\ Len(work) < WorkQueueSize /\ work' = Append(work, i)
       /\ UNCHANGED <<cur, crossed>>
    \/ /\ WorkQueueSize = 0 /\ UNCHANGED work
       /\ \E w \in Workers : Alive(w) /\ cur[w] = None /\ Begin(w, i)

\* To put an item is to hand it to a worker or to append it to the queue.
LEMMA PutMeans ==
    ASSUME NEW i, NEW R \in SUBSET {"loop", "drain"}, Put(i, R)
    PROVE  PutInto(i)
BY DEF Put, PutInto, Alive

\* A worker does not begin with a stub.
LEMMA BeginTypes ==
    ASSUME PoolTypes, NEW w \in Workers, NEW i \in Tasks \cup Waiters, Begin(w, i)
    PROVE  /\ cur' \in [Workers -> Tasks \cup Waiters \cup {None}]
           /\ crossed' \in [Waiters -> BOOLEAN]
<1>1. cur \in [Workers -> Tasks \cup Waiters \cup {None}] /\ crossed \in [Waiters -> BOOLEAN]
  BY DEF PoolTypes
<1>2. CASE i \in Waiters
  <2>1. crossed' = [crossed EXCEPT ![i] = TRUE] /\ cur' = cur
    BY <1>2 DEF Begin
  <2>2. crossed' \in [Waiters -> BOOLEAN]
    BY <1>1, <2>1, Zenon
  <2> QED BY <1>1, <2>1, <2>2
<1>3. CASE i \notin Waiters
  <2>1. cur' = [cur EXCEPT ![w] = i] /\ crossed' = crossed
    BY <1>3 DEF Begin
  <2>2. cur' \in [Workers -> Tasks \cup Waiters \cup {None}]
    BY <1>1, <2>1
  <2> QED BY <1>1, <2>1, <2>2
<1> QED BY <1>2, <1>3

\* The types across a put,
LEMMA PutTypes ==
    ASSUME PoolTypes, NEW i \in Tasks \cup Waiters, PutInto(i)
    PROVE  /\ work' \in Seq(Items) /\ Len(work') <= WorkQueueSize
           /\ cur' \in [Workers -> Tasks \cup Waiters \cup {None}]
           /\ crossed' \in [Waiters -> BOOLEAN]
<1>1. CASE Len(work) < WorkQueueSize /\ work' = Append(work, i) /\ UNCHANGED <<cur, crossed>>
  <2>1. work' \in Seq(Items) /\ Len(work') = Len(work) + 1 /\ Len(work) \in Nat
    BY <1>1, AppendIn, LenProperties DEF PoolTypes
  <2> QED BY <1>1, <2>1 DEF PoolTypes
<1>2. CASE UNCHANGED work /\ \E w \in Workers : Begin(w, i)
  <2>1. PICK w \in Workers : Begin(w, i)
    BY <1>2
  <2> QED BY <1>2, <2>1, BeginTypes DEF PoolTypes
<1> QED BY <1>1, <1>2 DEF PutInto

\* No worker finds a stub in the queue that it reads.
LEMMA HeadIsNoStub ==
    ASSUME PoolTypes, WorkersOK, ClosingOK, NEW w \in Workers, Alive(w), work # <<>>
    PROVE  Head(work) \in Tasks \cup Waiters
<1>1. Head(work) \in Items /\ In(work, Head(work))
  BY TailIn DEF PoolTypes
<1>2. ~In(work, STUB)
  BY DEF WorkersOK, ClosingOK
<1> QED BY <1>1, <1>2

\* the return of a task's caller,
LEMMA ReturnTypes ==
    ASSUME PoolTypes, NEW s \in Tasks, NEW r \in {"ok", "error"}, Return(s, r)
    PROVE  /\ spc' \in [Tasks -> {"idle", "select", "spawn", "returned"}]
           /\ ret' \in [Tasks -> {"ok", "error", None}]
BY DEF PoolTypes, Return

\* the answer to a wait,
LEMMA AnswerTypes ==
    ASSUME PoolTypes, NEW x \in Waiters, NEW r \in {"ok", "error"}, Answer(x, r)
    PROVE  /\ xpc' \in [Waiters -> {"idle", "send", "cross", "multicast", "returned"}]
           /\ xret' \in [Waiters -> {"ok", "error", None}]
BY DEF PoolTypes, Answer

\* the tick that it takes,
LEMMA ConsumeTypes ==
    ASSUME PoolTypes, NEW x \in Waiters, Consume(x)
    PROVE  expired' \in [Waiters -> {"no", "yes", "taken"}]
<1>1. CASE x \in Timed
  BY <1>1 DEF PoolTypes, Consume
<1>2. CASE x \notin Timed
  BY <1>2 DEF PoolTypes, Consume
<1> QED BY <1>1, <1>2

\* and the release of a worker.
LEMMA ReleaseTypes ==
    ASSUME PoolTypes, NEW w \in Workers, Release(w)
    PROVE  /\ mode' \in [Workers -> {"none", "loop", "drain", "cork", "released", "gone"}]
           /\ sem' \in Int
<1>1. CASE MaxWorkers > 0
  BY <1>1 DEF PoolTypes, Release, GiveToken
<1>2. CASE ~(MaxWorkers > 0)
  BY <1>2 DEF PoolTypes, Release, GiveToken
<1> QED BY <1>1, <1>2

\* Each step keeps the types.
LEMMA TypesStep ==
    ASSUME PoolTypes, WorkersOK, ClosingOK, [Next]_vars
    PROVE  PoolTypes'
<1>1. ASSUME NEW w \in Workers, Finish(w) PROVE PoolTypes'
  <2>1. CASE cur[w] \in Tasks
    BY <1>1, <2>1 DEF Finish, PoolTypes, pool, sched, close
  <2>2. CASE cur[w] \in Waiters
    <3> DEFINE x == cur[w]
    <3>1. snap' \in [Waiters -> {0, 1}]
      BY <1>1, <2>2 DEF Finish, PoolTypes
    <3>2. expired' \in [Waiters -> {"no", "yes", "taken"}]
      BY <1>1, <2>2, ConsumeTypes DEF Finish, PoolTypes
    <3>3. cur' \in [Workers -> Tasks \cup Waiters \cup {None}] /\ finished' = finished
      BY <1>1, <2>2 DEF Finish, PoolTypes
    <3> QED BY <1>1, <3>1, <3>2, <3>3 DEF Finish, PoolTypes, pool, sched, close
  <2> QED BY <1>1, <2>1, <2>2 DEF Finish
<1>2. ASSUME NEW w \in Workers, TakeDirect(w) PROVE PoolTypes'
  <2>1. direct[w] # STUB
    BY <1>2 DEF TakeDirect, WorkersOK, DoneClosed
  <2> QED BY <1>2, <2>1 DEF TakeDirect, PoolTypes, pool, sched, close, waiter
<1>3. ASSUME NEW w \in Workers, TakeWork(w) PROVE PoolTypes'
  <2>1. Head(work) \in Tasks \cup Waiters
    BY <1>3, HeadIsNoStub DEF TakeWork, Alive
  <2>2. work' \in Seq(Items) /\ Len(work') <= WorkQueueSize
    BY <1>3, TailIn DEF TakeWork, PoolTypes
  <2>3. cur' \in [Workers -> Tasks \cup Waiters \cup {None}] /\ crossed' \in [Waiters -> BOOLEAN]
    BY <1>3, <2>1, BeginTypes DEF TakeWork
  <2> QED BY <1>3, <2>2, <2>3 DEF TakeWork, PoolTypes, sched, close
<1>4. ASSUME NEW w \in Workers, Expire(w) PROVE PoolTypes'
  BY <1>4 DEF Expire, PoolTypes, pool, sched, close, waiter
<1>5. ASSUME NEW w \in Workers, SeeKill(w) PROVE PoolTypes'
  <2>1. mode' \in [Workers -> {"none", "loop", "drain", "cork", "released", "gone"}] /\ sem' \in Int
    <3>1. CASE NoCork
      BY <1>5, <3>1, ReleaseTypes DEF SeeKill
    <3>2. CASE ~NoCork
      <4>1. mode' = [mode EXCEPT ![w] = "drain"] /\ sem' = sem
        BY <1>5, <3>2 DEF SeeKill
      <4> QED BY <4>1 DEF PoolTypes
    <3> QED BY <3>1, <3>2
  <2> QED BY <1>5, <2>1 DEF SeeKill, PoolTypes, sched, close, waiter
<1>6. ASSUME NEW w \in Workers, Drained(w) PROVE PoolTypes'
  BY <1>6 DEF Drained, PoolTypes, pool, sched, close, waiter
<1>7. ASSUME NEW w \in Workers, CorkDirect(w) PROVE PoolTypes'
  <2>1. direct[w] # STUB
    BY <1>7 DEF CorkDirect, WorkersOK, DoneClosed
  <2>2. CASE direct[w] = None
    <3>1. mode' \in [Workers -> {"none", "loop", "drain", "cork", "released", "gone"}] /\ sem' \in Int
      BY <1>7, <2>2, ReleaseTypes DEF CorkDirect
    <3>2. direct' \in [Workers -> Waiters \cup {STUB, None}] /\ cur' = cur
      <4>1. direct' = [direct EXCEPT ![w] = STUB] /\ cur' = cur
        BY <1>7, <2>2 DEF CorkDirect
      <4> QED BY <4>1 DEF PoolTypes
    <3> QED BY <1>7, <3>1, <3>2 DEF CorkDirect, PoolTypes, sched, close, waiter
  <2>3. CASE direct[w] # None
    <3>1. /\ direct' \in [Workers -> Waiters \cup {STUB, None}]
          /\ cur' \in [Workers -> Tasks \cup Waiters \cup {None}]
          /\ UNCHANGED <<mode, sem>>
      <4>1. /\ direct' = [direct EXCEPT ![w] = None] /\ cur' = [cur EXCEPT ![w] = direct[w]]
            /\ UNCHANGED <<mode, sem>>
        BY <1>7, <2>3 DEF CorkDirect
      <4> QED BY <2>1, <4>1 DEF PoolTypes
    <3> QED BY <1>7, <3>1 DEF CorkDirect, PoolTypes, sched, close, waiter
  <2> QED BY <2>2, <2>3
<1>8. ASSUME NEW w \in Workers, Unlist(w) PROVE PoolTypes'
  <2>1. PICK i \in DOMAIN list : list' = RemoveAt(list, i)
    BY <1>8 DEF Unlist
  <2>2. list' \in Seq(Workers)
    BY <2>1, LenProperties, RemoveIn DEF PoolTypes
  <2> QED BY <1>8, <2>2 DEF Unlist, PoolTypes, sched, close, waiter
<1>9. ASSUME NEW s \in Tasks, ScheduleTry(s) PROVE PoolTypes'
  <2>1. /\ work' \in Seq(Items) /\ Len(work') <= WorkQueueSize
        /\ cur' \in [Workers -> Tasks \cup Waiters \cup {None}]
        /\ crossed' \in [Waiters -> BOOLEAN]
    <3>1. CASE UNCHANGED <<work, cur, crossed>>
      BY <3>1 DEF PoolTypes
    <3>2. CASE Put(s, {"loop"})
      BY <3>2, PutMeans, PutTypes
    <3> QED BY <1>9, <3>1, <3>2 DEF ScheduleTry
  <2>2. spc' \in [Tasks -> {"idle", "select", "spawn", "returned"}]
        /\ ret' \in [Tasks -> {"ok", "error", None}]
    BY <1>9 DEF ScheduleTry, Return, PoolTypes
  <2> QED BY <1>9, <2>1, <2>2 DEF ScheduleTry, PoolTypes, close
<1>10. ASSUME NEW s \in Tasks, ScheduleSelect(s) PROVE PoolTypes'
  <2>1. /\ work' \in Seq(Items) /\ Len(work') <= WorkQueueSize
        /\ cur' \in [Workers -> Tasks \cup Waiters \cup {None}]
        /\ crossed' \in [Waiters -> BOOLEAN]
    <3>1. CASE UNCHANGED <<work, cur, crossed>>
      BY <3>1 DEF PoolTypes
    <3>2. CASE Put(s, {"loop", "drain"})
      BY <3>2, PutMeans, PutTypes
    <3> QED BY <1>10, <3>1, <3>2 DEF ScheduleSelect
  <2>2. spc' \in [Tasks -> {"idle", "select", "spawn", "returned"}]
        /\ ret' \in [Tasks -> {"ok", "error", None}] /\ sem' \in Int
    <3>2. CASE sem' = sem + 1 /\ spc' = [spc EXCEPT ![s] = "spawn"] /\ ret' = ret
      BY <3>2 DEF PoolTypes
    <3>3. CASE Return(s, "ok") /\ UNCHANGED sem
      BY <3>3, ReturnTypes DEF PoolTypes
    <3>4. CASE Return(s, "error") /\ UNCHANGED sem
      BY <3>4, ReturnTypes DEF PoolTypes
    <3> QED BY <1>10, <3>2, <3>3, <3>4 DEF ScheduleSelect
  <2> QED BY <1>10, <2>1, <2>2 DEF ScheduleSelect, PoolTypes, close
<1>11. ASSUME NEW s \in Tasks, ScheduleCancel(s) PROVE PoolTypes'
  BY <1>11 DEF ScheduleCancel, Return, PoolTypes, pool, workers, close, waiter
<1>12. ASSUME NEW s \in Tasks, Spawn(s) PROVE PoolTypes'
  <2>1. CASE killed
    <3>1. sem' \in Int
      BY <1>12, <2>1 DEF Spawn, GiveToken, PoolTypes
    <3>2. /\ spc' \in [Tasks -> {"idle", "select", "spawn", "returned"}]
          /\ ret' \in [Tasks -> {"ok", "error", None}]
      BY <1>12, <2>1, ReturnTypes DEF Spawn
    <3> QED BY <1>12, <2>1, <3>1, <3>2 DEF Spawn, PoolTypes, close, waiter
  <2>2. CASE ~killed
    <3>1. list' \in Seq(Workers)
      <4>1. list' = Append(list, s)
        BY <1>12, <2>2 DEF Spawn, Start
      <4> QED BY <4>1, AppendIn DEF PoolTypes
    <3>2. /\ spc' \in [Tasks -> {"idle", "select", "spawn", "returned"}]
          /\ ret' \in [Tasks -> {"ok", "error", None}]
      BY <1>12, <2>2, ReturnTypes DEF Spawn, Start
    <3>3. /\ mode' \in [Workers -> {"none", "loop", "drain", "cork", "released", "gone"}]
          /\ cur' \in [Workers -> Tasks \cup Waiters \cup {None}]
      <4>1. mode' = [mode EXCEPT ![s] = "loop"] /\ cur' = [cur EXCEPT ![s] = s]
        BY <1>12, <2>2 DEF Spawn, Start
      <4> QED BY <4>1 DEF PoolTypes
    <3> QED BY <1>12, <2>2, <3>1, <3>2, <3>3 DEF Spawn, PoolTypes, close, waiter
  <2> QED BY <2>1, <2>2
<1>13. ASSUME CloseKill \/ CloseWait PROVE PoolTypes'
  BY <1>13 DEF CloseKill, CloseWait, Cork, PoolTypes, pool, workers, sched, waiter
<1>14. ASSUME CloseFill PROVE PoolTypes'
  <2>1. work' \in Seq(Items) /\ Len(work') <= WorkQueueSize
    <3>1. CASE Len(work) < WorkQueueSize
      <4>1. work' = Append(work, STUB) /\ STUB \in Items
        BY <1>14, <3>1 DEF CloseFill
      <4>2. work' \in Seq(Items) /\ Len(work') = Len(work) + 1 /\ Len(work) \in Nat
        BY <4>1, AppendIn, LenProperties DEF PoolTypes
      <4> QED BY <3>1, <4>2
    <3>2. CASE ~(Len(work) < WorkQueueSize)
      BY <1>14, <3>2 DEF CloseFill, PoolTypes
    <3> QED BY <3>1, <3>2
  <2>2. cpc' \in {"open", "wait", "fill", "drain", "closed"} /\ count' \in Nat
    BY <1>14 DEF CloseFill, PoolTypes
  <2> QED BY <1>14, <2>1, <2>2 DEF CloseFill, PoolTypes, workers, sched, waiter
<1>15. ASSUME CloseDrain PROVE PoolTypes'
  <2>1. work' \in Seq(Items) /\ Len(work') <= WorkQueueSize
    BY <1>15, TailIn DEF CloseDrain, PoolTypes
  <2>2. crossed' \in [Waiters -> BOOLEAN]
    <3> DEFINE b == [x \in Waiters |-> crossed[x] \/ x = Head(work)]
    <3>1. crossed' = b
      BY <1>15 DEF CloseDrain
    <3>2. b \in [Waiters -> BOOLEAN]
      BY Zenon
    <3> QED BY <3>1, <3>2
  <2>3. cpc' \in {"open", "wait", "fill", "drain", "closed"} /\ count' \in Nat
        /\ finished' \in SUBSET Tasks
    BY <1>15 DEF CloseDrain, PoolTypes, ClosingOK
  <2> QED BY <1>15, <2>1, <2>2, <2>3 DEF CloseDrain, PoolTypes, workers, sched
<1>16. ASSUME NEW x \in Waiters, TimerFires(x) PROVE PoolTypes'
  BY <1>16 DEF TimerFires, PoolTypes, pool, workers, sched, close
<1>17. ASSUME NEW x \in Waiters, WaitStart(x) PROVE PoolTypes'
  BY <1>17 DEF WaitStart, PoolTypes, pool, workers, sched, close
<1>18. ASSUME NEW x \in Waiters, WaitSend(x) PROVE PoolTypes'
  <2>1. /\ work' \in Seq(Items) /\ Len(work') <= WorkQueueSize
        /\ cur' \in [Workers -> Tasks \cup Waiters \cup {None}]
        /\ crossed' \in [Waiters -> BOOLEAN]
    <3>1. CASE UNCHANGED <<work, cur, crossed>>
      BY <3>1 DEF PoolTypes
    <3>2. CASE Put(x, {"loop", "drain"})
      BY <3>2, PutMeans, PutTypes
    <3> QED BY <1>18, <3>1, <3>2 DEF WaitSend
  <2>2. /\ xpc' \in [Waiters -> {"idle", "send", "cross", "multicast", "returned"}]
        /\ xret' \in [Waiters -> {"ok", "error", None}]
        /\ expired' \in [Waiters -> {"no", "yes", "taken"}]
    <3>1. CASE xpc' = [xpc EXCEPT ![x] = "cross"] /\ UNCHANGED <<xret, expired>>
      BY <3>1 DEF PoolTypes
    <3>2. CASE Answer(x, "ok") /\ UNCHANGED expired
      BY <3>2, AnswerTypes DEF PoolTypes
    <3>3. CASE Answer(x, "error") /\ Consume(x)
      BY <3>3, AnswerTypes, ConsumeTypes
    <3> QED BY <1>18, <3>1, <3>2, <3>3 DEF WaitSend
  <2> QED BY <1>18, <2>1, <2>2 DEF WaitSend, PoolTypes, sched, close
<1>19. ASSUME NEW x \in Waiters, WaitCross(x) PROVE PoolTypes'
  <2>1. /\ xpc' \in [Waiters -> {"idle", "send", "cross", "multicast", "returned"}]
        /\ xret' \in [Waiters -> {"ok", "error", None}]
        /\ expired' \in [Waiters -> {"no", "yes", "taken"}]
        /\ todo' \in [Waiters -> Seq(Workers)]
    <3>1. CASE xpc' = [xpc EXCEPT ![x] = "multicast"] /\ todo' = [todo EXCEPT ![x] = list]
               /\ UNCHANGED <<xret, expired>>
      BY <3>1 DEF PoolTypes
    <3>2. CASE Answer(x, "error") /\ Consume(x) /\ UNCHANGED todo
      BY <3>2, AnswerTypes, ConsumeTypes DEF PoolTypes
    <3> QED BY <1>19, <3>1, <3>2 DEF WaitCross
  <2> QED BY <1>19, <2>1 DEF WaitCross, PoolTypes, pool, workers, sched, close
<1>20. ASSUME NEW x \in Waiters, BarrierStart(x) PROVE PoolTypes'
  BY <1>20 DEF BarrierStart, PoolTypes, pool, workers, sched, close
<1>21. ASSUME NEW x \in Waiters, Multicast(x) PROVE PoolTypes'
  <2>1. Head(todo[x]) \in Workers /\ Tail(todo[x]) \in Seq(Workers)
    BY <1>21, TailIn DEF Multicast, PoolTypes
  <2> DEFINE w == Head(todo[x])
             t == Tail(todo[x])
  <2>2. \/ direct' = [direct EXCEPT ![w] = x] /\ need' = [need EXCEPT ![x] = @ + 1]
           /\ todo' = [todo EXCEPT ![x] = t] /\ UNCHANGED <<xpc, xret, expired>>
        \/ todo' = [todo EXCEPT ![x] = t] /\ UNCHANGED <<direct, need, xpc, xret, expired>>
        \/ Answer(x, "error") /\ Consume(x) /\ UNCHANGED <<direct, need, todo>>
    BY <1>21 DEF Multicast
  <2> HIDE DEF w, t
  <2>3. w \in Workers /\ t \in Seq(Workers)
    BY <2>1 DEF w, t
  <2>4. /\ direct' \in [Workers -> Waiters \cup {STUB, None}]
        /\ need' \in [Waiters -> Nat]
        /\ todo' \in [Waiters -> Seq(Workers)]
    <3>1. CASE direct' = [direct EXCEPT ![w] = x] /\ need' = [need EXCEPT ![x] = need[x] + 1]
               /\ todo' = [todo EXCEPT ![x] = t]
      BY <2>3, <3>1 DEF PoolTypes
    <3>2. CASE todo' = [todo EXCEPT ![x] = t] /\ UNCHANGED <<direct, need>>
      BY <2>3, <3>2 DEF PoolTypes
    <3>3. CASE UNCHANGED <<direct, need, todo>>
      BY <3>3 DEF PoolTypes
    <3> QED BY <2>2, <3>1, <3>2, <3>3
  <2>5. /\ xpc' \in [Waiters -> {"idle", "send", "cross", "multicast", "returned"}]
        /\ xret' \in [Waiters -> {"ok", "error", None}]
        /\ expired' \in [Waiters -> {"no", "yes", "taken"}]
    BY <2>2, AnswerTypes, ConsumeTypes DEF PoolTypes
  <2> QED BY <1>21, <2>4, <2>5 DEF Multicast, PoolTypes, pool, sched, close
<1>22. ASSUME NEW x \in Waiters, Collect(x) PROVE PoolTypes'
  <2>1. need' \in [Waiters -> Nat] /\ snap' \in [Waiters -> {0, 1}]
    <3>1. \/ UNCHANGED <<need, snap>>
          \/ need[x] > 0 /\ snap' = [snap EXCEPT ![x] = 0] /\ need' = [need EXCEPT ![x] = need[x] - 1]
      BY <1>22 DEF Collect
    <3>2. CASE UNCHANGED <<need, snap>>
      BY <3>2 DEF PoolTypes
    <3>3. CASE need[x] > 0 /\ snap' = [snap EXCEPT ![x] = 0] /\ need' = [need EXCEPT ![x] = need[x] - 1]
      <4>1. need[x] - 1 \in Nat
        BY <3>3 DEF PoolTypes
      <4> QED BY <3>3, <4>1 DEF PoolTypes
    <3> QED BY <3>1, <3>2, <3>3
  <2>2. /\ xpc' \in [Waiters -> {"idle", "send", "cross", "multicast", "returned"}]
        /\ xret' \in [Waiters -> {"ok", "error", None}]
        /\ expired' \in [Waiters -> {"no", "yes", "taken"}]
    BY <1>22, AnswerTypes, ConsumeTypes DEF Collect, PoolTypes
  <2> QED BY <1>22, <2>1, <2>2 DEF Collect, PoolTypes, pool, workers, sched, close
<1>23. CASE UNCHANGED vars
  BY <1>23 DEF vars, PoolTypes, pool, workers, sched, close, waiter
<1> QED BY <1>1, <1>2, <1>3, <1>4, <1>5, <1>6, <1>7, <1>8, <1>9, <1>10, <1>11, <1>12, <1>13,
          <1>14, <1>15, <1>16, <1>17, <1>18, <1>19, <1>20, <1>21, <1>22, <1>23, Zenon
    DEF Next, Work, Schedule, Closing, Waiting

-----------------------------------------------------------------------------
(* What a step may do to a task that runs, and to the queue *)

\* A worker that has a task stays where it is, and the task ends finished.
RunKept(w) ==
    /\ cur[w] # None =>
          /\ mode'[w] = mode[w]
          /\ direct[w] # None => direct'[w] = direct[w]
          /\ \/ cur'[w] = cur[w]
             \/ cur'[w] = None /\ (cur[w] \in Tasks => cur[w] \in finished')
    /\ cur[w] = None /\ cur'[w] # None => Alive(w)'

RunsKept == finished \subseteq finished' /\ \A w \in Workers : RunKept(w)

\* A worker that begins an item touches nobody else's.
LEMMA BeginMeans ==
    ASSUME PoolTypes, NEW w \in Workers, NEW i \in Tasks \cup Waiters, Begin(w, i)
    PROVE  /\ \A v \in Workers \ {w} : cur'[v] = cur[v]
           /\ i \in Tasks => cur'[w] = i /\ crossed' = crossed
           /\ i \in Waiters => cur' = cur /\ crossed'[i] /\ \A x \in Waiters \ {i} : crossed'[x] = crossed[x]
<1>1. CASE i \in Waiters
  <2>1. crossed' = [crossed EXCEPT ![i] = TRUE] /\ cur' = cur
    BY <1>1 DEF Begin
  <2>2. crossed \in [Waiters -> BOOLEAN]
    BY DEF PoolTypes
  <2>3. crossed'[i] /\ \A x \in Waiters \ {i} : crossed'[x] = crossed[x]
    BY <1>1, <2>1, <2>2, Zenon
  <2>4. i \notin Tasks
    BY <1>1
  <2> QED BY <2>1, <2>3, <2>4
<1>2. CASE i \notin Waiters
  <2>1. cur' = [cur EXCEPT ![w] = i] /\ crossed' = crossed
    BY <1>2 DEF Begin
  <2> QED BY <1>2, <2>1 DEF PoolTypes
<1> QED BY <1>1, <1>2

\* A worker that begins with an item is one that lives and has no task.
LEMMA BeginKeepsRuns ==
    ASSUME PoolTypes, NEW v \in Workers, NEW i \in Tasks \cup Waiters,
           Alive(v), cur[v] = None, Begin(v, i), UNCHANGED <<mode, direct, finished>>
    PROVE  RunsKept
<1>1. ASSUME NEW w \in Workers PROVE RunKept(w)
  <2>1. CASE w = v
    BY <2>1 DEF RunKept, Alive
  <2>2. CASE w # v
    <3>1. cur'[w] = cur[w]
      BY <2>2, BeginMeans
    <3> QED BY <3>1 DEF RunKept
  <2> QED BY <2>1, <2>2
<1> QED BY <1>1 DEF RunsKept

\* A put takes no running task from its worker.
LEMMA PutKeepsRuns ==
    ASSUME PoolTypes, NEW i \in Tasks \cup Waiters, PutInto(i), UNCHANGED <<mode, direct, finished>>
    PROVE  RunsKept
<1>1. CASE UNCHANGED cur
  BY <1>1 DEF RunsKept, RunKept
<1>2. CASE \E w \in Workers : Alive(w) /\ cur[w] = None /\ Begin(w, i)
  BY <1>2, BeginKeepsRuns
<1> QED BY <1>1, <1>2 DEF PutInto

\* No step takes a running task from its worker without finishing it.
LEMMA RunsStep ==
    ASSUME PoolTypes, WorkersOK, ClosingOK, [Next]_vars
    PROVE  RunsKept
<1> DEFINE Still == UNCHANGED <<mode, cur, direct, finished>>
<1>1. ASSUME NEW w \in Workers, Finish(w) PROVE RunsKept
  <2>1. finished \subseteq finished' /\ cur' = [cur EXCEPT ![w] = None]
        /\ (cur[w] \in Tasks => cur[w] \in finished') /\ UNCHANGED <<mode, direct>>
    BY <1>1 DEF Finish
  <2>2. ASSUME NEW v \in Workers PROVE RunKept(v)
    BY <2>1 DEF RunKept, PoolTypes
  <2> QED BY <2>1, <2>2 DEF RunsKept
<1>2. ASSUME NEW w \in Workers, TakeDirect(w) PROVE RunsKept
  BY <1>2 DEF TakeDirect, RunsKept, RunKept, PoolTypes, Alive
<1>3. ASSUME NEW w \in Workers, TakeWork(w) PROVE RunsKept
  <2>1. Head(work) \in Tasks \cup Waiters /\ Alive(w)
    BY <1>3, HeadIsNoStub DEF TakeWork, Alive
  <2> QED BY <1>3, <2>1, BeginKeepsRuns DEF TakeWork
<1>4. ASSUME NEW w \in Workers, Expire(w) \/ Drained(w) PROVE RunsKept
  BY <1>4 DEF Expire, Drained, RunsKept, RunKept, PoolTypes
<1>5. ASSUME NEW w \in Workers, SeeKill(w) PROVE RunsKept
  <2>1. cur[w] = None /\ UNCHANGED <<cur, direct, finished>>
        /\ \A v \in Workers \ {w} : mode'[v] = mode[v]
    BY <1>5 DEF SeeKill, Release, PoolTypes
  <2> QED BY <2>1 DEF RunsKept, RunKept
<1>6. ASSUME NEW w \in Workers, CorkDirect(w) PROVE RunsKept
  <2>1. CASE direct[w] = None
    <3>1. cur[w] = None /\ UNCHANGED <<cur, finished>> /\ direct' = [direct EXCEPT ![w] = STUB]
          /\ mode' = [mode EXCEPT ![w] = "released"]
      BY <1>6, <2>1 DEF CorkDirect, Release
    <3> QED BY <3>1 DEF RunsKept, RunKept, PoolTypes
  <2>2. CASE direct[w] # None
    <3>1. cur[w] = None /\ Alive(w) /\ UNCHANGED <<mode, finished>> /\ direct' = [direct EXCEPT ![w] = None]
          /\ cur' = [cur EXCEPT ![w] = direct[w]]
      BY <1>6, <2>2 DEF CorkDirect, Alive
    <3> QED BY <3>1 DEF RunsKept, RunKept, PoolTypes, Alive
  <2> QED BY <2>1, <2>2
<1>7. ASSUME NEW w \in Workers, Unlist(w) PROVE RunsKept
  <2>1. cur[w] = None
    BY <1>7 DEF Unlist, WorkersOK, Alive
  <2> QED BY <1>7, <2>1 DEF Unlist, RunsKept, RunKept, PoolTypes
<1>8. ASSUME NEW s \in Tasks, ScheduleTry(s) \/ ScheduleSelect(s) PROVE RunsKept
  <2>1. PutInto(s) \/ UNCHANGED cur
    BY <1>8, PutMeans DEF ScheduleTry, ScheduleSelect
  <2>2. UNCHANGED <<mode, direct, finished>>
    BY <1>8 DEF ScheduleTry, ScheduleSelect
  <2> QED BY <2>1, <2>2, PutKeepsRuns DEF RunsKept, RunKept
<1>9. ASSUME NEW s \in Tasks, Spawn(s) PROVE RunsKept
  <2>1. CASE killed
    BY <1>9, <2>1 DEF Spawn, RunsKept, RunKept
  <2>2. CASE ~killed
    <3>1. mode' = [mode EXCEPT ![s] = "loop"] /\ cur' = [cur EXCEPT ![s] = s]
          /\ UNCHANGED <<direct, finished>>
      BY <1>9, <2>2 DEF Spawn, Start
    <3>2. cur[s] = None
      BY <1>9 DEF Spawn, WorkersOK, Alive, PoolTypes
    <3> QED BY <3>1, <3>2 DEF RunsKept, RunKept, PoolTypes, Alive
  <2> QED BY <2>1, <2>2
<1>10. ASSUME CloseDrain PROVE RunsKept
  BY <1>10 DEF CloseDrain, workers, RunsKept, RunKept
<1>11. ASSUME NEW x \in Waiters, WaitSend(x) PROVE RunsKept
  <2>1. PutInto(x) \/ UNCHANGED cur
    BY <1>11, PutMeans DEF WaitSend
  <2>2. UNCHANGED <<mode, direct, finished>>
    BY <1>11 DEF WaitSend
  <2> QED BY <2>1, <2>2, PutKeepsRuns DEF RunsKept, RunKept
<1>12. ASSUME NEW x \in Waiters, Multicast(x) PROVE RunsKept
  <2>1. UNCHANGED <<mode, cur, finished>>
        /\ (direct' = direct \/ \E w : direct[w] = None /\ direct' = [direct EXCEPT ![w] = x])
    BY <1>12 DEF Multicast
  <2> QED BY <2>1 DEF RunsKept, RunKept, PoolTypes
<1>13. ASSUME Still PROVE RunsKept
  BY <1>13 DEF RunsKept, RunKept
<1>14. ASSUME NEW s \in Tasks, ScheduleCancel(s) PROVE Still
  BY <1>14 DEF ScheduleCancel, workers
<1>15. ASSUME CloseKill \/ CloseWait \/ CloseFill PROVE Still
  BY <1>15 DEF CloseKill, CloseWait, CloseFill, workers
<1>16. ASSUME NEW x \in Waiters,
              TimerFires(x) \/ WaitStart(x) \/ WaitCross(x) \/ BarrierStart(x) \/ Collect(x)
       PROVE  Still
  BY <1>16 DEF TimerFires, WaitStart, WaitCross, BarrierStart, Collect, workers
<1>17. CASE UNCHANGED vars
  BY <1>13, <1>17 DEF vars, workers
<1> HIDE DEF Still
<1> QED BY <1>1, <1>2, <1>3, <1>4, <1>5, <1>6, <1>7, <1>8, <1>9, <1>10, <1>11, <1>12, <1>13,
          <1>14, <1>15, <1>16, <1>17, Zenon
    DEF Next, Work, Schedule, Closing, Waiting

\* An item leaves the queue for a worker, or for Close, that executes it; no
\* bound task comes into it, and none is crossed, but as a step of its waiter.
Received(i) ==
    /\ i \in Tasks => i \in finished' \/ \E w \in Workers : cur'[w] = i
    /\ i \in Waiters => crossed'[i]
    /\ \A x \in Waiters \ {i} : crossed'[x] = crossed[x]

QueueTakes == work # <<>> /\ work' = Tail(work) /\ Received(Head(work)) /\ cpc \notin {"fill", "closed"}

QueueGets(i) == Len(work) < WorkQueueSize /\ work' = Append(work, i) /\ UNCHANGED crossed

QueueKept ==
    \/ UNCHANGED <<work, crossed>>
    \/ QueueTakes
    \/ \E s \in Tasks : QueueGets(s)
    \/ cpc = "fill" /\ QueueGets(STUB)
    \/ \E x \in Waiters : xpc[x] = "send" /\ xpc'[x] = "cross" /\ PutInto(x)

\* A task that was put runs or is in the queue.
LEMMA PutOfTask ==
    ASSUME PoolTypes, NEW s \in Tasks, PutInto(s)
    PROVE  QueueKept /\ (IsRun(s)' \/ In(work, s)')
<1>1. CASE Len(work) < WorkQueueSize /\ work' = Append(work, s) /\ UNCHANGED <<cur, crossed>>
  <2>1. In(work', s)
    <3>1. work \in Seq(Items) /\ s \in Items /\ work' = Append(work, s)
      BY <1>1 DEF PoolTypes
    <3> QED BY <3>1, AppendIn
  <2>2. QueueGets(s)
    BY <1>1 DEF QueueGets
  <2> QED BY <2>1, <2>2, Zenon DEF QueueKept
<1>2. CASE UNCHANGED work /\ \E w \in Workers : Begin(w, s)
  <2>1. PICK w \in Workers : Begin(w, s)
    BY <1>2
  <2>2. cur'[w] = s /\ crossed' = crossed
    BY <2>1, BeginMeans
  <2> QED BY <1>2, <2>2 DEF QueueKept, IsRun
<1> QED BY <1>1, <1>2 DEF PutInto

\* What any step does to the queue.
LEMMA QueueStep ==
    ASSUME PoolTypes, WorkersOK, ClosingOK, [Next]_vars
    PROVE  QueueKept
<1> DEFINE Still == UNCHANGED <<work, crossed>>
<1>1. ASSUME NEW w \in Workers, TakeWork(w) PROVE QueueKept
  <2>1. Head(work) \in Tasks \cup Waiters /\ Alive(w) /\ work # <<>> /\ work' = Tail(work)
        /\ Begin(w, Head(work))
    BY <1>1, HeadIsNoStub DEF TakeWork, Alive
  <2>2. cpc \notin {"fill", "closed"}
    BY <2>1 DEF ClosingOK, Closing3
  <2>3. Received(Head(work))
    <3> DEFINE h == Head(work)
    <3>1. /\ h \in Tasks => cur'[w] = h /\ crossed' = crossed
          /\ h \in Waiters => crossed'[h] /\ \A x \in Waiters \ {h} : crossed'[x] = crossed[x]
      BY <2>1, BeginMeans
    <3> HIDE DEF h
    <3>2. h \in Tasks => \E v \in Workers : cur'[v] = h
      BY <3>1
    <3>3. h \in Tasks => h \notin Waiters
      OBVIOUS
    <3>4. Received(h)
      BY <2>1, <3>1, <3>2, <3>3 DEF Received, h
    <3> QED BY <3>4 DEF h
  <2> QED BY <2>1, <2>2, <2>3 DEF QueueKept, QueueTakes
<1>2. ASSUME NEW s \in Tasks, ScheduleTry(s) \/ ScheduleSelect(s) PROVE QueueKept
  <2>1. PutInto(s) \/ Still
    BY <1>2, PutMeans DEF ScheduleTry, ScheduleSelect
  <2>2. CASE Still
    BY <2>2 DEF QueueKept
  <2> QED BY <2>1, <2>2, PutOfTask, Zenon
<1>3. ASSUME CloseFill PROVE QueueKept
  <2>1. cpc = "fill" /\ UNCHANGED crossed
    BY <1>3 DEF CloseFill, waiter
  <2>2. UNCHANGED work \/ QueueGets(STUB)
    BY <1>3, <2>1 DEF CloseFill, QueueGets
  <2> QED BY <2>1, <2>2 DEF QueueKept
<1>4. ASSUME CloseDrain PROVE QueueKept
  <2>1. work # <<>> /\ work' = Tail(work) /\ cpc = "drain"
    BY <1>4 DEF CloseDrain
  <2>2. Head(work) \in Tasks => Head(work) \in finished'
    BY <1>4 DEF CloseDrain
  <2>3. /\ Head(work) \in Waiters => crossed'[Head(work)]
        /\ \A x \in Waiters \ {Head(work)} : crossed'[x] = crossed[x]
    <3> DEFINE h == Head(work)
    <3>1. crossed' = [x \in Waiters |-> crossed[x] \/ x = h]
      BY <1>4 DEF CloseDrain
    <3>2. crossed \in [Waiters -> BOOLEAN]
      BY DEF PoolTypes
    <3> HIDE DEF h
    <3>3. /\ h \in Waiters => crossed'[h]
          /\ \A x \in Waiters \ {h} : crossed'[x] = crossed[x]
      BY <3>1, <3>2, Zenon
    <3> QED BY <3>3, Zenon DEF h
  <2>4. Received(Head(work))
    BY <2>2, <2>3, Zenon DEF Received
  <2> QED BY <2>1, <2>4 DEF QueueKept, QueueTakes
<1>5. ASSUME NEW x \in Waiters, WaitSend(x) PROVE QueueKept
  <2>1. CASE Still
    BY <2>1 DEF QueueKept
  <2>2. CASE ~Still
    <3>1. xpc[x] = "send" /\ Put(x, {"loop", "drain"}) /\ xpc' = [xpc EXCEPT ![x] = "cross"]
      BY <1>5, <2>2 DEF WaitSend
    <3>2. PutInto(x) /\ xpc'[x] = "cross"
      BY <3>1, PutMeans DEF PoolTypes
    <3> QED BY <3>1, <3>2 DEF QueueKept
  <2> QED BY <2>1, <2>2
<1>6. ASSUME Still PROVE QueueKept
  BY <1>6 DEF QueueKept
<1>7. ASSUME NEW w \in Workers,
             \/ Finish(w) \/ TakeDirect(w) \/ Expire(w) \/ SeeKill(w) \/ Drained(w) \/ CorkDirect(w)
             \/ Unlist(w)
      PROVE  Still
  BY <1>7 DEF Finish, TakeDirect, Expire, SeeKill, Drained, CorkDirect, Unlist, pool, waiter
<1>8. ASSUME NEW s \in Tasks, ScheduleCancel(s) \/ Spawn(s) PROVE Still
  BY <1>8 DEF ScheduleCancel, Spawn, pool, waiter
<1>9. ASSUME CloseKill \/ CloseWait PROVE Still
  BY <1>9 DEF CloseKill, CloseWait, pool, waiter
<1>10. ASSUME NEW x \in Waiters,
              \/ TimerFires(x) \/ WaitStart(x) \/ WaitCross(x) \/ BarrierStart(x) \/ Multicast(x)
              \/ Collect(x)
       PROVE  Still
  BY <1>10 DEF TimerFires, WaitStart, WaitCross, BarrierStart, Multicast, Collect, pool
<1>11. UNCHANGED vars => Still
  BY DEF vars, pool, waiter
<1> HIDE DEF Still
<1> QED BY <1>1, <1>2, <1>3, <1>4, <1>5, <1>6, <1>7, <1>8, <1>9, <1>10, <1>11, Zenon
    DEF Next, Work, Schedule, Closing, Waiting

\* The phases of Close are passed in one direction.
LEMMA ClosingStep ==
    ASSUME PoolTypes, [Next]_vars
    PROVE  /\ cpc # "open" => cpc' # "open"
           /\ Closing3 => Closing3'
           /\ cpc = "closed" => cpc' = "closed"
<1>1. CASE UNCHANGED cpc
  BY <1>1 DEF Closing3
<1>2. CASE CloseKill \/ Closing
  BY <1>2 DEF CloseKill, Closing, CloseWait, CloseFill, CloseDrain, Cork, Closing3
<1>3. ASSUME NEW w \in Workers, Work(w) \/ Expire(w) PROVE UNCHANGED cpc
  BY <1>3 DEF Work, Finish, TakeDirect, TakeWork, Expire, SeeKill, Drained, CorkDirect, Unlist, close
<1>4. ASSUME NEW s \in Tasks, Schedule(s) \/ ScheduleCancel(s) PROVE UNCHANGED cpc
  BY <1>4 DEF Schedule, ScheduleTry, ScheduleSelect, ScheduleCancel, Spawn, close
<1>5. ASSUME NEW x \in Waiters, WaitStart(x) \/ BarrierStart(x) \/ Waiting(x) \/ TimerFires(x)
      PROVE  UNCHANGED cpc
  BY <1>5 DEF WaitStart, BarrierStart, Waiting, WaitSend, WaitCross, Multicast, Collect, TimerFires, close
<1>6. UNCHANGED vars => UNCHANGED cpc
  BY DEF vars, close
<1> QED BY <1>1, <1>2, <1>3, <1>4, <1>5, <1>6 DEF Next

\* Each step keeps the places of the workers.
LEMMA WorkersStep ==
    ASSUME PoolTypes, WorkersOK, ClosingOK, [Next]_vars
    PROVE  WorkersOK'
<1> DEFINE StubOK == \A w \in Workers : direct[w] = STUB => DoneClosed(w)
           ListOK == \A w \in Workers : Alive(w) => In(list, w)
           SpawnOK == \A s \in Tasks : mode[s] # "none" => spc[s] = "returned"
           Still == UNCHANGED <<mode, direct, list, spc>>
<1>1. StubOK /\ ListOK /\ SpawnOK
  BY DEF WorkersOK
<1>2. \A w \in Workers : cur'[w] # None => Alive(w)'
  BY RunsStep DEF RunsKept, RunKept, WorkersOK, Alive
<1>3. In(work', STUB) => Closing3'
  <2>1. QueueKept
    BY QueueStep
  <2>2. ASSUME In(work', STUB), ~In(work, STUB) PROVE cpc = "fill"
    <3>1. work \in Seq(Items) /\ STUB \in Items
      BY DEF PoolTypes
    <3>2. work' # work
      BY <2>2
    <3>3. ASSUME work # <<>>, work' = Tail(work) PROVE FALSE
      BY <2>2, <3>1, <3>3, TailIn
    <3>4. ASSUME NEW i \in Tasks \cup Waiters, work' = Append(work, i) PROVE FALSE
      <4>1. i \in Items /\ i # STUB
        OBVIOUS
      <4> QED BY <2>2, <3>1, <3>4, <4>1, AppendIn
    <3> QED BY <2>1, <3>2, <3>3, <3>4, Zenon DEF QueueKept, QueueTakes, QueueGets, PutInto
  <2> QED BY <2>2, ClosingStep DEF WorkersOK, Closing3
<1>4. ASSUME NEW w \in Workers,
             Finish(w) \/ TakeDirect(w) \/ TakeWork(w) \/ Expire(w) \/ SeeKill(w) \/ Drained(w)
      PROVE  StubOK' /\ ListOK' /\ SpawnOK'
  <2>1. UNCHANGED <<list, spc>>
    BY <1>4 DEF Finish, TakeDirect, TakeWork, Expire, SeeKill, Drained, pool, sched
  <2>2. /\ \A v \in Workers \ {w} : mode'[v] = mode[v] /\ direct'[v] = direct[v]
        /\ direct'[w] = direct[w] \/ direct'[w] = None
        /\ mode'[w] = mode[w] \/ mode[w] \in {"loop", "drain"}
    BY <1>4 DEF Finish, TakeDirect, TakeWork, Expire, SeeKill, Release, Drained, pool, sched, PoolTypes
  <2> QED BY <1>1, <2>1, <2>2 DEF Alive, DoneClosed
<1>5. ASSUME NEW w \in Workers, CorkDirect(w) PROVE StubOK' /\ ListOK' /\ SpawnOK'
  <2>1. CASE direct[w] = None
    <3>1. UNCHANGED <<list, spc>> /\ direct' = [direct EXCEPT ![w] = STUB] /\ mode[w] = "cork"
          /\ mode' = [mode EXCEPT ![w] = "released"]
      BY <1>5, <2>1 DEF CorkDirect, Release, sched
    <3> QED BY <1>1, <3>1 DEF PoolTypes, Alive, DoneClosed
  <2>2. CASE direct[w] # None
    <3>1. UNCHANGED <<list, spc, mode>> /\ direct' = [direct EXCEPT ![w] = None]
      BY <1>5, <2>2 DEF CorkDirect, sched
    <3> QED BY <1>1, <3>1 DEF PoolTypes, Alive, DoneClosed
  <2> QED BY <2>1, <2>2
<1>6. ASSUME NEW w \in Workers, Unlist(w) PROVE StubOK' /\ ListOK' /\ SpawnOK'
  <2>1. UNCHANGED <<direct, spc>> /\ mode' = [mode EXCEPT ![w] = "gone"] /\ mode[w] = "released"
    BY <1>6 DEF Unlist, sched
  <2>2. PICK i \in DOMAIN list : list[i] = w /\ list' = RemoveAt(list, i)
    BY <1>6 DEF Unlist
  <2>3. list \in Seq(Workers) /\ i \in 1..Len(list)
    BY <2>2, LenProperties DEF PoolTypes
  <2>4. \A v \in Workers \ {w} : In(list, v) => In(list', v)
    BY <2>2, <2>3, RemoveIn
  <2> QED BY <1>1, <2>1, <2>4 DEF PoolTypes, Alive, DoneClosed
<1>7. ASSUME NEW s \in Tasks, ScheduleTry(s) \/ ScheduleSelect(s) \/ ScheduleCancel(s)
      PROVE  StubOK' /\ ListOK' /\ SpawnOK'
  <2>1. UNCHANGED <<mode, direct, list>> /\ spc[s] # "returned"
        /\ \A t \in Tasks \ {s} : spc'[t] = spc[t]
    BY <1>7 DEF ScheduleTry, ScheduleSelect, ScheduleCancel, Return, pool, workers, PoolTypes
  <2> QED BY <1>1, <2>1 DEF Alive, DoneClosed
<1>8. ASSUME NEW s \in Tasks, Spawn(s) PROVE StubOK' /\ ListOK' /\ SpawnOK'
  <2>1. spc' = [spc EXCEPT ![s] = "returned"] /\ UNCHANGED direct /\ spc[s] = "spawn"
    BY <1>8 DEF Spawn, Start, Return
  <2>2. CASE killed
    <3>1. UNCHANGED <<mode, list>>
      BY <1>8, <2>2 DEF Spawn
    <3> QED BY <1>1, <2>1, <3>1 DEF PoolTypes, Alive, DoneClosed
  <2>3. CASE ~killed
    <3>1. mode' = [mode EXCEPT ![s] = "loop"] /\ list' = Append(list, s)
      BY <1>8, <2>3 DEF Spawn, Start
    <3>2. mode[s] = "none"
      BY <1>1, <2>1
    <3>3. \A v \in Workers : In(list', v) <=> In(list, v) \/ v = s
      BY <3>1, AppendIn DEF PoolTypes
    <3> QED BY <1>1, <2>1, <3>1, <3>2, <3>3 DEF PoolTypes, Alive, DoneClosed
  <2> QED BY <2>2, <2>3
<1>9. ASSUME NEW x \in Waiters, Multicast(x) PROVE StubOK' /\ ListOK' /\ SpawnOK'
  <2>1. UNCHANGED <<mode, list, spc>>
        /\ (direct' = direct \/ \E w : direct' = [direct EXCEPT ![w] = x])
    BY <1>9 DEF Multicast, pool, sched
  <2> QED BY <1>1, <2>1 DEF PoolTypes, Alive, DoneClosed
<1>10. ASSUME Still PROVE StubOK' /\ ListOK' /\ SpawnOK'
  BY <1>1, <1>10 DEF Alive, DoneClosed
<1>11. ASSUME CloseKill \/ Closing PROVE Still
  BY <1>11 DEF CloseKill, Closing, CloseWait, CloseFill, CloseDrain, pool, workers, sched
<1>12. ASSUME NEW x \in Waiters,
              WaitStart(x) \/ BarrierStart(x) \/ WaitSend(x) \/ WaitCross(x) \/ Collect(x) \/ TimerFires(x)
       PROVE  Still
  BY <1>12 DEF WaitStart, BarrierStart, WaitSend, WaitCross, Collect, TimerFires, pool, workers, sched
<1>13. UNCHANGED vars => Still
  BY DEF vars, pool, workers, sched
<1>14. StubOK' /\ ListOK' /\ SpawnOK'
  <2> HIDE DEF Still, StubOK, ListOK, SpawnOK
  <2> QED BY <1>4, <1>5, <1>6, <1>7, <1>8, <1>9, <1>10, <1>11, <1>12, <1>13, Zenon
        DEF Next, Work, Schedule, Waiting
<1> QED BY <1>2, <1>3, <1>14 DEF WorkersOK

-----------------------------------------------------------------------------
(* The tasks that were accepted *)

Placed(s) == s \in finished \/ IsRun(s) \/ In(work, s)

\* A task that has a place, finished, running or queued, keeps having one.
LEMMA PlaceKept ==
    ASSUME PoolTypes, RunsKept, QueueKept, NEW s \in Tasks, Placed(s)
    PROVE  Placed(s)'
<1>1. CASE s \in finished
  BY <1>1 DEF RunsKept, Placed
<1>2. CASE IsRun(s)
  <2>1. PICK w \in Workers : cur[w] = s
    BY <1>2 DEF IsRun
  <2>2. RunKept(w) /\ cur[w] # None
    BY <2>1 DEF RunsKept
  <2> QED BY <2>1, <2>2 DEF RunKept, Placed, IsRun
<1>3. CASE In(work, s)
  <2>1. work \in Seq(Items)
    BY DEF PoolTypes
  <2>2. CASE UNCHANGED work
    BY <1>3, <2>2 DEF Placed
  <2>3. CASE QueueTakes
    <3>1. s = Head(work) \/ In(work', s)
      BY <1>3, <2>1, <2>3, TailIn DEF QueueTakes
    <3>2. s = Head(work) => s \in finished' \/ \E w \in Workers : cur'[w] = s
      BY <2>3 DEF QueueTakes, Received
    <3> QED BY <3>1, <3>2 DEF Placed, IsRun
  <2>4. ASSUME NEW i \in Items, work' = Append(work, i) PROVE Placed(s)'
    BY <1>3, <2>1, <2>4, AppendIn DEF Placed
  <2>5. Tasks \subseteq Items /\ Waiters \subseteq Items /\ STUB \in Items
    OBVIOUS
  <2> QED BY <2>2, <2>3, <2>4, <2>5 DEF QueueKept, QueueGets, PutInto
<1> QED BY <1>1, <1>2, <1>3 DEF Placed

\* Each step keeps that accepted tasks have a place.
LEMMA AcceptedStep ==
    ASSUME PoolTypes, WorkersOK, ClosingOK, AcceptedOK, [Next]_vars
    PROVE  AcceptedOK'
<1>1. RunsKept /\ QueueKept
  BY RunsStep, QueueStep
<1>2. ASSUME NEW s \in Tasks, ret[s] = "ok" PROVE Placed(s)'
  BY <1>1, <1>2, PlaceKept DEF AcceptedOK, Placed
<1>3. ASSUME NEW s \in Tasks, ret'[s] = "ok", ret[s] # "ok" PROVE Placed(s)'
  <2> DEFINE Still == UNCHANGED ret
  <2>1. ~Still
    BY <1>3
  <2>2. ASSUME NEW t \in Tasks, ScheduleTry(t) \/ ScheduleSelect(t) PROVE Placed(s)'
    <3>1. \/ PutInto(t) /\ Return(t, "ok")
          \/ Return(t, "error")
          \/ Still
      BY <2>2, PutMeans DEF ScheduleTry, ScheduleSelect
    <3>2. s = t /\ PutInto(t)
      BY <1>3, <3>1 DEF Return, PoolTypes
    <3> QED BY <3>2, PutOfTask DEF Placed
  <2>3. ASSUME NEW t \in Tasks, ScheduleCancel(t) PROVE FALSE
    BY <1>3, <2>3 DEF ScheduleCancel, Return, PoolTypes
  <2>4. ASSUME NEW t \in Tasks, Spawn(t) PROVE Placed(s)'
    <3>1. \/ Return(t, "error")
          \/ Return(t, "ok") /\ cur' = [cur EXCEPT ![t] = t]
      BY <2>4 DEF Spawn, Start
    <3>2. s = t /\ cur' = [cur EXCEPT ![t] = t]
      BY <1>3, <3>1 DEF Return, PoolTypes
    <3>3. cur'[s] = s /\ s \in Workers
      BY <3>2 DEF PoolTypes
    <3> QED BY <3>3 DEF Placed, IsRun
  <2>5. ASSUME NEW w \in Workers, Work(w) \/ Expire(w) PROVE Still
    BY <2>5 DEF Work, Finish, TakeDirect, TakeWork, Expire, SeeKill, Drained, CorkDirect, Unlist, sched
  <2>6. ASSUME CloseKill \/ Closing PROVE Still
    BY <2>6 DEF CloseKill, Closing, CloseWait, CloseFill, CloseDrain, sched
  <2>7. ASSUME NEW x \in Waiters, WaitStart(x) \/ BarrierStart(x) \/ Waiting(x) \/ TimerFires(x)
        PROVE  Still
    BY <2>7 DEF WaitStart, BarrierStart, Waiting, WaitSend, WaitCross, Multicast, Collect, TimerFires, sched
  <2>8. UNCHANGED vars => Still
    BY DEF vars, sched
  <2> HIDE DEF Still
  <2> QED BY <2>1, <2>2, <2>3, <2>4, <2>5, <2>6, <2>7, <2>8, Zenon DEF Next, Schedule
<1> QED BY <1>2, <1>3 DEF AcceptedOK, Placed

-----------------------------------------------------------------------------
(* Close *)

\* The stubs of a queue can be counted.
LEMMA StubsFinite ==
    ASSUME NEW q \in Seq(Items)
    PROVE  /\ Len(q) \in Nat /\ IsFiniteSet(1..Len(q)) /\ Cardinality(1..Len(q)) = Len(q)
           /\ IsFiniteSet(Stubs(q)) /\ Cardinality(Stubs(q)) \in Nat
           /\ Stubs(q) \in SUBSET (1..Len(q))
<1>1. Len(q) \in Nat
  BY LenProperties
<1>2. IsFiniteSet(1..Len(q)) /\ Cardinality(1..Len(q)) = Len(q)
  <2> DEFINE n == Len(q)
  <2>1. n \in Nat
    BY <1>1
  <2> HIDE DEF n
  <2>2. IsFiniteSet(1..n) /\ Cardinality(1..n) = n
    BY <2>1, FS_Interval
  <2> QED BY <2>2 DEF n
<1>3. Stubs(q) \in SUBSET (1..Len(q))
  BY DEF Stubs
<1>4. IsFiniteSet(Stubs(q))
  BY <1>2, <1>3, FS_Subset, Zenon
<1>5. Cardinality(Stubs(q)) \in Nat
  BY <1>4, FS_CardinalityType
<1> QED BY <1>1, <1>2, <1>3, <1>4, <1>5

\* An item put at the end leaves the stubs that are in the queue.
LEMMA StubsAppend ==
    ASSUME NEW q \in Seq(Items), NEW i \in Items
    PROVE  /\ Append(q, i) \in Seq(Items) /\ Len(Append(q, i)) = Len(q) + 1
           /\ Cardinality(Stubs(Append(q, i))) >= Cardinality(Stubs(q)) + (IF i = STUB THEN 1 ELSE 0)
<1> DEFINE t == Append(q, i)
           n == Len(q) + 1
<1>1. /\ t \in Seq(Items) /\ Len(t) = n /\ t[n] = i /\ Len(q) \in Nat
      /\ \A j \in 1..Len(q) : t[j] = q[j]
  BY AppendIn, LenProperties
<1> HIDE DEF t
<1>2. Stubs(q) \subseteq Stubs(t) /\ (i = STUB => n \in Stubs(t)) /\ n \notin Stubs(q)
  BY <1>1 DEF Stubs
<1>3. /\ IsFiniteSet(Stubs(q)) /\ Cardinality(Stubs(q)) \in Nat
      /\ IsFiniteSet(Stubs(t)) /\ Cardinality(Stubs(t)) \in Nat
  BY <1>1, StubsFinite
<1>4. CASE i = STUB
  <2> HIDE DEF n
  <2>1. Cardinality(Stubs(q) \cup {n}) = Cardinality(Stubs(q)) + 1
    BY <1>2, <1>3, FS_AddElement
  <2>2. Stubs(q) \cup {n} \in SUBSET Stubs(t)
    BY <1>2, <1>4
  <2>3. Cardinality(Stubs(q) \cup {n}) <= Cardinality(Stubs(t))
    BY <1>3, <2>2, FS_Subset, Zenon
  <2> QED BY <1>1, <1>3, <1>4, <2>1, <2>3 DEF t, n
<1>5. CASE i # STUB
  <2>1. Cardinality(Stubs(q)) <= Cardinality(Stubs(t))
    BY <1>2, <1>3, FS_Subset, Zenon
  <2> QED BY <1>1, <1>3, <1>5, <2>1 DEF t
<1> QED BY <1>4, <1>5

Full == Len(work) = WorkQueueSize /\ \A i \in 1..Len(work) : work[i] = STUB
CountOK ==
    /\ cpc \in {"fill", "drain"} => ~NoCork
    /\ cpc = "fill" => count < WorkQueueSize /\ count <= Cardinality(Stubs(work))
    /\ cpc = "drain" => count \in 1..WorkQueueSize
    /\ cpc \in {"open", "wait"} => count = 0
    /\ cpc = "closed" /\ ~NoCork => Full

\* Nobody but Close touches a corked queue, and what is put beside the stubs
\* leaves them.
LEMMA CountKept ==
    ASSUME PoolTypes, CountOK, QueueKept, UNCHANGED <<cpc, count>>
    PROVE  CountOK'
<1>1. work \in Seq(Items) /\ Len(work) \in Nat
  BY StubsFinite DEF PoolTypes
<1>2. CASE UNCHANGED work
  BY <1>2 DEF CountOK, Full
<1>3. CASE cpc \notin {"fill", "closed"}
  BY <1>3 DEF CountOK
<1>4. ASSUME NEW i \in Items, Len(work) < WorkQueueSize, work' = Append(work, i) PROVE CountOK'
  <2>1. Cardinality(Stubs(work)) <= Cardinality(Stubs(work')) /\ Cardinality(Stubs(work')) \in Nat
        /\ Cardinality(Stubs(work)) \in Nat
    <3>1. work' \in Seq(Items)
      BY <1>1, <1>4, StubsAppend
    <3>2. Cardinality(Stubs(work')) \in Nat /\ Cardinality(Stubs(work)) \in Nat
      BY <1>1, <3>1, StubsFinite
    <3>3. Cardinality(Stubs(work')) >= Cardinality(Stubs(work)) + (IF i = STUB THEN 1 ELSE 0)
      BY <1>1, <1>4, StubsAppend
    <3> QED BY <3>2, <3>3
  <2>2. ~(cpc = "closed" /\ ~NoCork)
    BY <1>1, <1>4 DEF CountOK, Full
  <2> QED BY <2>1, <2>2 DEF CountOK, PoolTypes
<1>5. Tasks \subseteq Items /\ Waiters \subseteq Items /\ STUB \in Items
  OBVIOUS
<1> QED BY <1>2, <1>3, <1>4, <1>5 DEF QueueKept, QueueTakes, QueueGets, PutInto

\* After as many stubs as fit the queue has nothing else.
LEMMA CountOfClose ==
    ASSUME PoolTypes, ClosingOK, CountOK, CloseKill \/ Closing
    PROVE  CountOK'
<1>1. work \in Seq(Items) /\ Len(work) \in Nat /\ Len(work) <= WorkQueueSize
  BY StubsFinite DEF PoolTypes
<1>2. CASE CloseKill
  BY <1>2 DEF CloseKill, CountOK
<1>3. CASE CloseWait
  <2>1. count = 0 /\ UNCHANGED <<work, count>> /\ cpc = "wait"
    BY <1>3 DEF CloseWait, CountOK, pool
  <2>2. Cardinality(Stubs(work)) \in Nat
    BY <1>1, StubsFinite
  <2>3. CASE NoCork
    BY <1>3, <2>1, <2>3 DEF CloseWait, Cork, CountOK
  <2>4. CASE ~NoCork /\ WorkQueueSize = 0
    BY <1>1, <1>3, <2>1, <2>4 DEF CloseWait, Cork, CountOK, Full
  <2>5. CASE ~NoCork /\ WorkQueueSize # 0
    BY <1>3, <2>1, <2>2, <2>5 DEF CloseWait, Cork, CountOK
  <2> QED BY <2>3, <2>4, <2>5
<1>4. CASE CloseFill
  <2>1. cpc = "fill" /\ count < WorkQueueSize /\ count <= Cardinality(Stubs(work)) /\ ~NoCork /\ count \in Nat
    BY <1>4 DEF CloseFill, CountOK, PoolTypes
  <2>2. CASE Len(work) < WorkQueueSize
    <3>1. work' = Append(work, STUB) /\ STUB \in Items
      BY <1>4, <2>2 DEF CloseFill
    <3>2. /\ work' \in Seq(Items) /\ Len(work') = Len(work) + 1
          /\ Cardinality(Stubs(work')) >= Cardinality(Stubs(work)) + (IF STUB = STUB THEN 1 ELSE 0)
      BY <1>1, <3>1, StubsAppend
    <3>3. /\ IsFiniteSet(1..Len(work')) /\ Cardinality(1..Len(work')) = Len(work')
          /\ Cardinality(Stubs(work')) \in Nat /\ Cardinality(Stubs(work)) \in Nat
          /\ Stubs(work') \in SUBSET (1..Len(work'))
      BY <1>1, <3>2, StubsFinite
    <3>4. count + 1 <= Cardinality(Stubs(work'))
      BY <2>1, <3>2, <3>3
    <3>5. CASE count + 1 = WorkQueueSize
      <4>1. Cardinality(Stubs(work')) <= Cardinality(1..Len(work'))
            /\ (Cardinality(1..Len(work')) = Cardinality(Stubs(work')) => 1..Len(work') = Stubs(work'))
        BY <3>3, FS_Subset, Zenon
      <4>2. Len(work') = WorkQueueSize /\ 1..Len(work') = Stubs(work')
        BY <1>1, <2>2, <3>2, <3>3, <3>4, <3>5, <4>1
      <4>3. Full'
        BY <4>2 DEF Full, Stubs
      <4>4. cpc' = "closed" /\ count' = 0
        BY <1>4, <2>2, <3>5 DEF CloseFill
      <4> QED BY <4>3, <4>4 DEF CountOK
    <3>6. CASE count + 1 # WorkQueueSize
      <4>1. cpc' = "fill" /\ count' = count + 1
        BY <1>4, <2>2, <3>6 DEF CloseFill
      <4> QED BY <2>1, <3>4, <3>6, <4>1 DEF CountOK
    <3> QED BY <3>5, <3>6
  <2>3. CASE ~(Len(work) < WorkQueueSize)
    <3>1. cpc' = "drain" /\ count' = WorkQueueSize
      BY <1>4, <2>3 DEF CloseFill
    <3> QED BY <2>1, <3>1 DEF CountOK
  <2> QED BY <2>2, <2>3
<1>5. CASE CloseDrain
  <2>1. cpc = "drain" /\ count \in 1..WorkQueueSize /\ ~NoCork /\ count' = count - 1
        /\ cpc' = IF count = 1 THEN "fill" ELSE "drain"
    BY <1>5 DEF CloseDrain, CountOK
  <2>2. work' = Tail(work) /\ work # <<>>
    BY <1>5 DEF CloseDrain
  <2>3. work' \in Seq(Items)
    BY <1>1, <2>2, TailIn
  <2>4. Cardinality(Stubs(work')) \in Nat
    BY <2>3, StubsFinite
  <2> QED BY <2>1, <2>4 DEF CountOK
<1> QED BY <1>2, <1>3, <1>4, <1>5 DEF Closing

\* Each step keeps the account of stubs while the pool is corked.
LEMMA ClosingOKStep ==
    ASSUME PoolTypes, WorkersOK, ClosingOK, [Next]_vars
    PROVE  ClosingOK'
<1> DEFINE AliveOK == Closing3 => \A w \in Workers : ~Alive(w)
           Still == UNCHANGED <<cpc, count>>
<1>1. AliveOK /\ CountOK
  BY DEF ClosingOK, CountOK, Full
<1>2. QueueKept
  BY QueueStep
<1>3. ASSUME NEW w \in Workers, Work(w) \/ Expire(w) PROVE AliveOK' /\ Still
  <2>1. Still
    BY <1>3 DEF Work, Finish, TakeDirect, TakeWork, Expire, SeeKill, Drained, CorkDirect, Unlist, close
  <2>2. (\A v \in Workers \ {w} : mode'[v] = mode[v]) /\ (Alive(w)' => Alive(w))
    <3>1. CASE UNCHANGED mode
      BY <3>1 DEF Alive
    <3>2. CASE mode' = [mode EXCEPT ![w] = "released"] \/ mode' = [mode EXCEPT ![w] = "gone"]
      BY <3>2 DEF PoolTypes, Alive
    <3>3. CASE Alive(w) /\ \E m : mode' = [mode EXCEPT ![w] = m]
      BY <3>3 DEF PoolTypes, Alive
    <3> QED BY <1>3, <3>1, <3>2, <3>3
          DEF Work, Finish, TakeDirect, TakeWork, Expire, SeeKill, Release, Drained, CorkDirect, Unlist, Alive
  <2> QED BY <1>1, <2>1, <2>2 DEF Closing3, Alive
<1>4. ASSUME NEW s \in Tasks, Schedule(s) \/ ScheduleCancel(s) PROVE AliveOK' /\ Still
  <2>1. Still
    BY <1>4 DEF Schedule, ScheduleTry, ScheduleSelect, ScheduleCancel, Spawn, close
  <2>2. UNCHANGED mode \/ ~killed
    BY <1>4 DEF Schedule, ScheduleTry, ScheduleSelect, ScheduleCancel, Spawn, workers
  <2> QED BY <1>1, <2>1, <2>2 DEF Closing3, Alive, killed
<1>5. ASSUME NEW x \in Waiters, WaitStart(x) \/ BarrierStart(x) \/ Waiting(x) \/ TimerFires(x)
      PROVE  AliveOK' /\ Still
  <2>1. Still /\ UNCHANGED mode
    BY <1>5 DEF WaitStart, BarrierStart, Waiting, WaitSend, WaitCross, Multicast, Collect, TimerFires, close, workers
  <2> QED BY <1>1, <2>1 DEF Closing3, Alive
<1>6. UNCHANGED vars => AliveOK' /\ Still
  BY <1>1 DEF vars, close, workers, Closing3, Alive
<1>7. CASE CloseKill \/ Closing
  <2>1. UNCHANGED mode
    BY <1>7 DEF CloseKill, Closing, CloseWait, CloseFill, CloseDrain, workers
  <2>2. Closing3' => Closing3 \/ \A w \in Workers : ~Alive(w)
    BY <1>7 DEF CloseKill, Closing, CloseWait, CloseFill, CloseDrain, Closing3
  <2>3. AliveOK'
    BY <1>1, <2>1, <2>2 DEF Alive
  <2> QED BY <1>1, <1>7, <2>3, CountOfClose DEF ClosingOK, CountOK, Full
<1>8. ASSUME AliveOK', Still PROVE ClosingOK'
  BY <1>1, <1>2, <1>8, CountKept DEF ClosingOK, CountOK, Full
<1> HIDE DEF AliveOK, Still
<1> QED BY <1>3, <1>4, <1>5, <1>6, <1>7, <1>8, Zenon DEF Next

-----------------------------------------------------------------------------
(* The tokens of p.sem *)

AliveSet == {w \in Workers : Alive(w)}
SpawnSet == {s \in Tasks : spc[s] = "spawn"}
Balance == MaxWorkers > 0 => sem = Cardinality(AliveSet) + Cardinality(SpawnSet)

\* One element more or less in a set of workers.
LEMMA CountOne ==
    ASSUME NEW S \in SUBSET Workers, NEW w \in Workers
    PROVE  /\ w \notin S => Cardinality(S \cup {w}) = Cardinality(S) + 1
           /\ w \in S => Cardinality(S \ {w}) = Cardinality(S) - 1
           /\ Cardinality(S) \in Nat
<1>1. IsFiniteSet(S) /\ Cardinality(S) \in Nat
  BY WorkersFinite
<1>2. w \notin S => Cardinality(S \cup {w}) = Cardinality(S) + 1
  BY <1>1, FS_AddElement
<1>3. w \in S => Cardinality(S \ {w}) = Cardinality(S) - 1
  BY <1>1, FS_RemoveElement
<1> QED BY <1>1, <1>2, <1>3

\* What is released had a token.
LEMMA ReleaseTokens ==
    ASSUME PoolTypes, TokensAccounted, NEW w \in Workers, Alive(w), Release(w), UNCHANGED spc
    PROVE  TokensAccounted'
<1>1. mode' = [mode EXCEPT ![w] = "released"] /\ (MaxWorkers > 0 => sem' = sem - 1)
  BY DEF Release, GiveToken
<1>2. AliveSet' = AliveSet \ {w} /\ w \in AliveSet /\ AliveSet \in SUBSET Workers /\ SpawnSet' = SpawnSet
  BY <1>1 DEF AliveSet, SpawnSet, Alive, PoolTypes
<1>3. SpawnSet \in SUBSET Workers
  BY DEF SpawnSet
<1>4. Cardinality(AliveSet') = Cardinality(AliveSet) - 1 /\ Cardinality(AliveSet) \in Nat
      /\ Cardinality(SpawnSet) \in Nat
  BY <1>2, <1>3, CountOne
<1> QED BY <1>1, <1>2, <1>4 DEF TokensAccounted, AliveSet, SpawnSet

\* Each step keeps the account of tokens.
LEMMA TokensStep ==
    ASSUME PoolTypes, WorkersOK, TokensAccounted, [Next]_vars
    PROVE  TokensAccounted'
<1> DEFINE Same == AliveSet' = AliveSet /\ SpawnSet' = SpawnSet /\ sem' = sem
<1>0. Balance /\ (Balance' => TokensAccounted')
  BY DEF TokensAccounted, Balance, AliveSet, SpawnSet
<1>1. AliveSet \in SUBSET Workers /\ SpawnSet \in SUBSET Workers
  BY DEF AliveSet, SpawnSet
<1>2. ASSUME Same PROVE TokensAccounted'
  BY <1>2 DEF TokensAccounted, AliveSet, SpawnSet
<1>3. UNCHANGED <<mode, spc, sem>> => Same
  BY DEF AliveSet, SpawnSet, Alive
<1>4. ASSUME NEW w \in Workers, Finish(w) \/ TakeDirect(w) \/ TakeWork(w) PROVE UNCHANGED <<mode, spc, sem>>
  BY <1>4 DEF Finish, TakeDirect, TakeWork, pool, sched
<1>5. ASSUME NEW w \in Workers, Expire(w) \/ Drained(w) PROVE Same
  <2>1. mode' = [mode EXCEPT ![w] = "cork"] /\ Alive(w) /\ UNCHANGED <<spc, sem>>
    BY <1>5 DEF Expire, Drained, pool, sched, Alive
  <2> QED BY <2>1 DEF AliveSet, SpawnSet, Alive, PoolTypes
<1>6. ASSUME NEW w \in Workers, SeeKill(w) PROVE TokensAccounted'
  <2>1. CASE NoCork
    <3>1. Alive(w) /\ Release(w) /\ UNCHANGED spc
      BY <1>6, <2>1 DEF SeeKill, sched, Alive
    <3> QED BY <3>1, ReleaseTokens
  <2>2. CASE ~NoCork
    <3>1. mode' = [mode EXCEPT ![w] = "drain"] /\ Alive(w) /\ UNCHANGED <<spc, sem>>
      BY <1>6, <2>2 DEF SeeKill, sched, Alive
    <3>2. Same
      BY <3>1 DEF AliveSet, SpawnSet, Alive, PoolTypes
    <3> QED BY <1>2, <3>2
  <2> QED BY <2>1, <2>2
<1>7. ASSUME NEW w \in Workers, CorkDirect(w) PROVE TokensAccounted'
  <2>1. CASE direct[w] = None
    <3>1. Alive(w) /\ Release(w) /\ UNCHANGED spc
      BY <1>7, <2>1 DEF CorkDirect, sched, Alive
    <3> QED BY <3>1, ReleaseTokens
  <2>2. CASE direct[w] # None
    <3>1. UNCHANGED <<mode, spc, sem>>
      BY <1>7, <2>2 DEF CorkDirect, sched
    <3> QED BY <1>2, <1>3, <3>1
  <2> QED BY <2>1, <2>2
<1>8. ASSUME NEW w \in Workers, Unlist(w) PROVE Same
  <2>1. mode' = [mode EXCEPT ![w] = "gone"] /\ ~Alive(w) /\ UNCHANGED <<spc, sem>>
    BY <1>8 DEF Unlist, sched, Alive
  <2> QED BY <2>1 DEF AliveSet, SpawnSet, Alive, PoolTypes
<1>9. ASSUME NEW s \in Tasks, ScheduleTry(s) PROVE TokensAccounted'
  <2>1. CASE MaxWorkers > 0
    <3>1. UNCHANGED <<mode, sem>> /\ spc[s] = "idle" /\ \E p \in {"select", "returned"} : spc' = [spc EXCEPT ![s] = p]
      BY <1>9, <2>1 DEF ScheduleTry, Return
    <3>2. Same
      BY <3>1 DEF AliveSet, SpawnSet, Alive, PoolTypes
    <3> QED BY <1>2, <3>2
  <2>2. CASE ~(MaxWorkers > 0)
    BY <2>2 DEF TokensAccounted
  <2> QED BY <2>1, <2>2
<1>10. ASSUME NEW s \in Tasks, ScheduleSelect(s) PROVE TokensAccounted'
  <2>1. CASE sem' = sem + 1 /\ spc' = [spc EXCEPT ![s] = "spawn"]
    <3>1. spc[s] = "select" /\ UNCHANGED mode
      BY <1>10 DEF ScheduleSelect
    <3>2. AliveSet' = AliveSet /\ SpawnSet' = SpawnSet \cup {s} /\ s \notin SpawnSet
      BY <2>1, <3>1 DEF AliveSet, SpawnSet, Alive, PoolTypes
    <3>3. Cardinality(SpawnSet') = Cardinality(SpawnSet) + 1 /\ Cardinality(SpawnSet) \in Nat
          /\ Cardinality(AliveSet) \in Nat
      BY <1>1, <3>2, CountOne
    <3> QED BY <1>0, <2>1, <3>2, <3>3 DEF Balance
  <2>2. CASE sem' = sem /\ spc' = [spc EXCEPT ![s] = "returned"]
    <3>1. spc[s] = "select" /\ UNCHANGED mode
      BY <1>10 DEF ScheduleSelect
    <3>2. Same
      BY <2>2, <3>1 DEF AliveSet, SpawnSet, Alive, PoolTypes
    <3> QED BY <1>2, <3>2
  <2> QED BY <1>10, <2>1, <2>2 DEF ScheduleSelect, Return
<1>11. ASSUME NEW s \in Tasks, ScheduleCancel(s) PROVE Same
  <2>1. spc[s] = "select" /\ UNCHANGED <<mode, sem>> /\ spc' = [spc EXCEPT ![s] = "returned"]
    BY <1>11 DEF ScheduleCancel, Return, pool, workers
  <2> QED BY <2>1 DEF AliveSet, SpawnSet, Alive, PoolTypes
<1>12. ASSUME NEW s \in Tasks, Spawn(s) PROVE TokensAccounted'
  <2>1. spc[s] = "spawn" /\ spc' = [spc EXCEPT ![s] = "returned"] /\ mode[s] = "none"
    BY <1>12 DEF Spawn, Start, Return, WorkersOK
  <2>2. SpawnSet' = SpawnSet \ {s} /\ s \in SpawnSet /\ s \notin AliveSet
    BY <2>1 DEF AliveSet, SpawnSet, Alive, PoolTypes
  <2>3. Cardinality(SpawnSet') = Cardinality(SpawnSet) - 1 /\ Cardinality(SpawnSet) \in Nat
        /\ Cardinality(AliveSet) \in Nat /\ Cardinality(AliveSet \cup {s}) = Cardinality(AliveSet) + 1
    BY <1>1, <2>2, CountOne
  <2>4. CASE killed
    <3>1. UNCHANGED mode /\ (MaxWorkers > 0 => sem' = sem - 1)
      BY <1>12, <2>4 DEF Spawn, GiveToken
    <3>2. AliveSet' = AliveSet
      BY <3>1 DEF AliveSet, Alive
    <3> QED BY <1>0, <2>3, <3>1, <3>2 DEF Balance, PoolTypes
  <2>5. CASE ~killed
    <3>1. mode' = [mode EXCEPT ![s] = "loop"] /\ sem' = sem
      BY <1>12, <2>5 DEF Spawn, Start
    <3>2. AliveSet' = AliveSet \cup {s}
      BY <2>1, <3>1 DEF AliveSet, Alive, PoolTypes
    <3> QED BY <1>0, <2>3, <3>1, <3>2 DEF Balance, PoolTypes
  <2> QED BY <2>4, <2>5
<1>13. ASSUME CloseKill \/ Closing PROVE UNCHANGED <<mode, spc, sem>>
  BY <1>13 DEF CloseKill, Closing, CloseWait, CloseFill, CloseDrain, pool, workers, sched
<1>14. ASSUME NEW x \in Waiters, WaitStart(x) \/ BarrierStart(x) \/ Waiting(x) \/ TimerFires(x)
      PROVE  UNCHANGED <<mode, spc, sem>>
  BY <1>14 DEF WaitStart, BarrierStart, Waiting, WaitSend, WaitCross, Multicast, Collect, TimerFires,
       pool, workers, sched
<1>15. UNCHANGED vars => UNCHANGED <<mode, spc, sem>>
  BY DEF vars, pool, workers, sched
<1> HIDE DEF Same
<1> QED BY <1>2, <1>3, <1>4, <1>5, <1>6, <1>7, <1>8, <1>9, <1>10, <1>11, <1>12, <1>13, <1>14, <1>15, Zenon
    DEF Next, Work, Schedule

-----------------------------------------------------------------------------
(* Wait and Barrier *)

\* Only a step of a waiter's own moves it on.
OwnKept(x) == xpc'[x] = xpc[x] /\ before'[x] = before[x] /\ todo'[x] = todo[x] /\ xret'[x] = xret[x]

OwnStep(x) == WaitStart(x) \/ WaitSend(x) \/ WaitCross(x) \/ BarrierStart(x) \/ Multicast(x) \/ Collect(x)

\* A wait moves by a step of its own or not at all.
LEMMA OwnOrKept ==
    ASSUME PoolTypes, [Next]_vars, NEW x \in Waiters
    PROVE  OwnKept(x) \/ OwnStep(x)
<1> DEFINE Still == UNCHANGED <<xpc, before, todo, xret>>
<1>1. ASSUME NEW y \in Waiters \ {x}, OwnStep(y) PROVE OwnKept(x)
  <2>1. \/ xpc' = xpc
        \/ \E p \in {"send", "cross", "multicast", "returned"} : xpc' = [xpc EXCEPT ![y] = p]
    BY <1>1 DEF OwnStep, WaitStart, WaitSend, WaitCross, BarrierStart, Multicast, Collect, Answer
  <2>2. before' = before \/ \E b : before' = [before EXCEPT ![y] = b]
    BY <1>1 DEF OwnStep, WaitStart, WaitSend, WaitCross, BarrierStart, Multicast, Collect
  <2>3. todo' = todo \/ \E b : todo' = [todo EXCEPT ![y] = b]
    BY <1>1 DEF OwnStep, WaitStart, WaitSend, WaitCross, BarrierStart, Multicast, Collect
  <2>4. xret' = xret \/ \E b : xret' = [xret EXCEPT ![y] = b]
    BY <1>1 DEF OwnStep, WaitStart, WaitSend, WaitCross, BarrierStart, Multicast, Collect, Answer
  <2>5. y # x
    BY <1>1
  <2>6. xpc'[x] = xpc[x] /\ before'[x] = before[x]
    BY <2>1, <2>2, <2>5 DEF PoolTypes
  <2>7. todo'[x] = todo[x] /\ xret'[x] = xret[x]
    BY <2>3, <2>4, <2>5 DEF PoolTypes
  <2> QED BY <2>6, <2>7 DEF OwnKept
<1>2. Still => OwnKept(x)
  BY DEF OwnKept
<1>3. ASSUME NEW w \in Workers, Work(w) \/ Expire(w) PROVE Still
  BY <1>3 DEF Work, Finish, TakeDirect, TakeWork, Expire, SeeKill, Drained, CorkDirect, Unlist, waiter
<1>4. ASSUME NEW s \in Tasks, Schedule(s) \/ ScheduleCancel(s) PROVE Still
  BY <1>4 DEF Schedule, ScheduleTry, ScheduleSelect, ScheduleCancel, Spawn, waiter
<1>5. CloseKill \/ Closing => Still
  BY DEF CloseKill, Closing, CloseWait, CloseFill, CloseDrain, waiter
<1>6. ASSUME NEW y \in Waiters, TimerFires(y) PROVE Still
  BY <1>6 DEF TimerFires
<1>7. UNCHANGED vars => Still
  BY DEF vars, waiter
<1> HIDE DEF Still
<1>8. \A y \in Waiters : OwnStep(y) => OwnKept(x) \/ OwnStep(x)
  BY <1>1
<1>9. \A y \in Waiters :
         WaitStart(y) \/ BarrierStart(y) \/ Waiting(y) \/ TimerFires(y) => OwnStep(y) \/ TimerFires(y)
  BY Zenon DEF OwnStep, Waiting
<1> QED BY <1>2, <1>3, <1>4, <1>5, <1>6, <1>7, <1>8, <1>9, Zenon DEF Next

\* A caller that was told of success stays so.
LEMMA AnsweredStep ==
    ASSUME PoolTypes, AnsweredOK, [Next]_vars
    PROVE  AnsweredOK' /\ \A s \in Tasks : ret[s] = "ok" => ret'[s] = "ok"
<1> DEFINE Good == AnsweredOK' /\ \A s \in Tasks : ret[s] = "ok" => ret'[s] = "ok"
           Still == UNCHANGED <<spc, ret>>
<1>1. Still => Good
  BY DEF AnsweredOK
<1>2. ASSUME NEW s \in Tasks, Schedule(s) \/ ScheduleCancel(s) PROVE Good
  <2>1. ret[s] # "ok"
    BY <1>2 DEF Schedule, ScheduleTry, ScheduleSelect, Spawn, ScheduleCancel, AnsweredOK
  <2>2. \/ \E r \in {"ok", "error"} : Return(s, r)
        \/ ret' = ret /\ \E p : spc' = [spc EXCEPT ![s] = p]
    BY <1>2 DEF Schedule, ScheduleTry, ScheduleSelect, Spawn, Start, ScheduleCancel
  <2>3. ASSUME NEW r \in {"ok", "error"}, Return(s, r) PROVE Good
    BY <2>1, <2>3 DEF Return, AnsweredOK, PoolTypes
  <2>4. ASSUME ret' = ret, NEW p, spc' = [spc EXCEPT ![s] = p] PROVE Good
    BY <2>1, <2>4 DEF AnsweredOK, PoolTypes
  <2> HIDE DEF Good
  <2> QED BY <2>2, <2>3, <2>4
<1>3. ASSUME NEW w \in Workers, Work(w) \/ Expire(w) PROVE Still
  BY <1>3 DEF Work, Finish, TakeDirect, TakeWork, Expire, SeeKill, Drained, CorkDirect, Unlist, sched
<1>4. CloseKill \/ Closing => Still
  BY DEF CloseKill, Closing, CloseWait, CloseFill, CloseDrain, sched
<1>5. ASSUME NEW x \in Waiters, WaitStart(x) \/ BarrierStart(x) \/ Waiting(x) \/ TimerFires(x) PROVE Still
  BY <1>5 DEF WaitStart, BarrierStart, Waiting, WaitSend, WaitCross, Multicast, Collect, TimerFires, sched
<1>6. UNCHANGED vars => Still
  BY DEF vars, sched
<1> HIDE DEF Still, Good
<1>7. Good
  BY <1>1, <1>2, <1>3, <1>4, <1>5, <1>6, Zenon DEF Next
<1> QED BY <1>7 DEF Good

\* A task that runs or is finished stays so.
LEMMA RunningKept ==
    ASSUME RunsKept, NEW s \in Tasks, s \in finished \/ IsRun(s)
    PROVE  s \in finished' \/ IsRun(s)'
<1>1. ASSUME NEW w \in Workers, cur[w] = s PROVE s \in finished' \/ IsRun(s)'
  <2>1. RunKept(w) /\ cur[w] # None
    BY <1>1 DEF RunsKept
  <2> QED BY <1>1, <2>1 DEF RunKept, IsRun
<1> QED BY <1>1 DEF RunsKept, IsRun

\* What a wait relies on survives the steps of others: in its multicast,
LEMMA CastKept ==
    ASSUME PoolTypes, RunsKept, NEW x \in Waiters, CastOK(x), OwnKept(x)
    PROVE  CastOK(x)'
<1> SUFFICES ASSUME xpc[x] = "multicast", NEW s \in before[x]
             PROVE  s \in finished' \/ \E w \in Workers : cur'[w] = s /\ (In(todo[x], w) \/ direct'[w] = x)
  BY DEF CastOK, OwnKept, In
<1>1. s \in Tasks /\ x \in Waiters /\ s # None /\ x # None
  BY DEF PoolTypes
<1>2. CASE s \in finished
  BY <1>2 DEF RunsKept
<1>3. ASSUME NEW w \in Workers, cur[w] = s, In(todo[x], w) \/ direct[w] = x
      PROVE  s \in finished' \/ (cur'[w] = s /\ (In(todo[x], w) \/ direct'[w] = x))
  <2>1. RunKept(w)
    BY DEF RunsKept
  <2> QED BY <1>1, <1>3, <2>1 DEF RunKept
<1> QED BY <1>2, <1>3 DEF CastOK

\* once it has its result,
LEMMA ResultKept ==
    ASSUME PoolTypes, RunsKept, NEW x \in Waiters, ResultOK(x), OwnKept(x)
    PROVE  ResultOK(x)'
BY DEF ResultOK, OwnKept, RunsKept

\* before it has put its bound task,
LEMMA SendKept ==
    ASSUME PoolTypes, AnsweredOK, QueueKept, [Next]_vars, NEW x \in Waiters, SendOK(x), OwnKept(x)
    PROVE  SendOK(x)'
<1>1. \A s \in Tasks : ret[s] = "ok" => ret'[s] = "ok"
  BY AnsweredStep
<1>2. xpc'[x] = "send" => \A s \in before'[x] : ret'[s] = "ok"
  BY <1>1 DEF SendOK, OwnKept, PoolTypes
<1>3. ASSUME xpc[x] \in {"idle", "send"} PROVE ~crossed'[x] /\ ~In(work', x)
  <2>1. ~crossed[x] /\ ~In(work, x) /\ work \in Seq(Items) /\ xpc'[x] # "cross"
    BY <1>3 DEF SendOK, OwnKept, PoolTypes
  <2>2. CASE UNCHANGED <<work, crossed>>
    BY <2>1, <2>2
  <2>3. CASE QueueTakes
    <3>1. x # Head(work) /\ ~In(work', x)
      BY <2>1, <2>3, TailIn DEF QueueTakes
    <3>2. crossed'[x] = crossed[x]
      BY <2>3, <3>1 DEF QueueTakes, Received
    <3> QED BY <2>1, <3>1, <3>2
  <2>4. ASSUME NEW i \in Items \ {x}, QueueGets(i) PROVE ~crossed'[x] /\ ~In(work', x)
    <3>1. ~In(work', x)
      BY <2>1, <2>4, AppendIn DEF QueueGets
    <3> QED BY <2>1, <2>4, <3>1 DEF QueueGets
  <2>5. ASSUME NEW y \in Waiters, xpc'[y] = "cross", PutInto(y) PROVE ~crossed'[x] /\ ~In(work', x)
    <3>1. y # x
      BY <2>1, <2>5
    <3>2. CASE work' = Append(work, y) /\ UNCHANGED crossed
      <4>1. ~In(work', x)
        BY <2>1, <3>1, <3>2, AppendIn
      <4> QED BY <2>1, <3>2, <4>1
    <3>3. CASE UNCHANGED work /\ \E w \in Workers : Begin(w, y)
      <4>1. crossed'[x] = crossed[x]
        BY <3>1, <3>3, BeginMeans
      <4> QED BY <2>1, <3>3, <4>1
    <3> QED BY <2>5, <3>2, <3>3 DEF PutInto
  <2>6. STUB \in Items \ {x} /\ Tasks \subseteq Items \ {x}
    OBVIOUS
  <2> QED BY <2>2, <2>3, <2>4, <2>5, <2>6 DEF QueueKept
<1> QED BY <1>2, <1>3 DEF SendOK, OwnKept

\* and while the bound task is ahead.
LEMMA CrossKept ==
    ASSUME PoolTypes, RunsKept, QueueKept, NEW x \in Waiters, CrossOK(x), OwnKept(x)
    PROVE  CrossOK(x)'
<1> DEFINE Done(s) == s \in finished' \/ \E w \in Workers : cur'[w] = s
           Goal == /\ ~crossed'[x] => \A i \in 1..Len(work') : work'[i] = x =>
                          \A s \in before[x] : Done(s) \/ \E j \in 1..i : work'[j] = s
                   /\ crossed'[x] => \A s \in before[x] : Done(s)
<1> SUFFICES ASSUME xpc[x] = "cross" PROVE Goal
  BY DEF CrossOK, OwnKept, IsRun
<1>1. before[x] \subseteq Tasks /\ work \in Seq(Items) /\ Len(work) \in Nat
  BY StubsFinite DEF PoolTypes
<1>2. \A s \in Tasks : s \in finished \/ IsRun(s) => Done(s)
  BY RunningKept DEF IsRun
<1>3. ASSUME ~crossed[x], NEW i \in 1..Len(work), work[i] = x, NEW s \in before[x]
      PROVE  Done(s) \/ \E j \in 1..i : work[j] = s
  BY <1>1, <1>2, <1>3 DEF CrossOK
<1>4. ASSUME crossed[x], NEW s \in before[x] PROVE Done(s)
  BY <1>1, <1>2, <1>4 DEF CrossOK
<1> HIDE DEF Done
<1>5. CASE UNCHANGED <<work, crossed>>
  BY <1>3, <1>4, <1>5
<1>6. CASE QueueTakes
  <2>1. /\ work # <<>> /\ work' = Tail(work) /\ Len(work') = Len(work) - 1 /\ Head(work) = work[1]
        /\ Len(work) \in Nat \ {0}
        /\ \A j \in 1..Len(work) - 1 : work'[j] = work[j + 1]
    BY <1>1, <1>6, TailIn DEF QueueTakes
  <2>2. CASE x = work[1]
    <3>1. crossed'[x]
      BY <1>6, <2>1, <2>2 DEF QueueTakes, Received
    <3>2. ASSUME ~crossed[x], NEW s \in before[x] PROVE Done(s)
      <4>1. 1 \in 1..Len(work) /\ work[1] # s
        BY <1>1, <2>1, <2>2
      <4> QED BY <1>3, <2>2, <3>2, <4>1
    <3> QED BY <1>4, <3>1, <3>2
  <2>3. CASE x # work[1]
    <3>1. crossed'[x] = crossed[x]
      BY <1>6, <2>1, <2>3 DEF QueueTakes, Received
    <3>2. ASSUME ~crossed[x], NEW i \in 1..Len(work'), work'[i] = x, NEW s \in before[x]
          PROVE  Done(s) \/ \E j \in 1..i : work'[j] = s
      <4>1. i + 1 \in 1..Len(work) /\ work[i + 1] = x
        BY <2>1, <3>2
      <4>2. Done(s) \/ \E j \in 1..i + 1 : work[j] = s
        BY <1>3, <3>2, <4>1
      <4>3. ASSUME work[1] = s PROVE Done(s)
        BY <1>1, <1>6, <2>1, <4>3 DEF QueueTakes, Received, Done
      <4>4. ASSUME NEW j \in 1..i + 1, j # 1, work[j] = s PROVE \E k \in 1..i : work'[k] = s
        <5>1. j - 1 \in 1..i /\ j - 1 \in 1..Len(work) - 1 /\ j - 1 + 1 = j
          BY <2>1, <4>4
        <5> QED BY <2>1, <4>4, <5>1
      <4> QED BY <4>2, <4>3, <4>4
    <3> QED BY <1>4, <3>1, <3>2
  <2> QED BY <2>2, <2>3
<1>7. ASSUME NEW i \in Items \ {x}, work' = Append(work, i), crossed'[x] = crossed[x] PROVE Goal
  <2>1. Len(work') = Len(work) + 1 /\ work'[Len(work) + 1] = i
        /\ \A j \in 1..Len(work) : work'[j] = work[j]
    BY <1>1, <1>7, AppendIn
  <2>2. ASSUME ~crossed[x], NEW k \in 1..Len(work'), work'[k] = x, NEW s \in before[x]
        PROVE  Done(s) \/ \E j \in 1..k : work'[j] = s
    <3>1. k \in 1..Len(work) /\ work[k] = x
      BY <1>1, <1>7, <2>1, <2>2
    <3>2. Done(s) \/ \E j \in 1..k : work[j] = s
      BY <1>3, <2>2, <3>1
    <3> QED BY <1>1, <2>1, <3>1, <3>2
  <2> QED BY <1>4, <1>7, <2>2
<1>8. ASSUME NEW y \in Waiters, xpc[y] = "send", PutInto(y) PROVE Goal
  <2>1. y \in Items \ {x}
    BY <1>8
  <2>2. CASE work' = Append(work, y) /\ UNCHANGED crossed
    BY <1>7, <2>1, <2>2
  <2>3. CASE UNCHANGED work /\ \E w \in Workers : Begin(w, y)
    <3>1. crossed'[x] = crossed[x]
      BY <2>1, <2>3, BeginMeans
    <3> QED BY <1>3, <1>4, <2>3, <3>1
  <2> QED BY <1>8, <2>2, <2>3 DEF PutInto
<1>9. STUB \in Items \ {x} /\ Tasks \subseteq Items \ {x}
  OBVIOUS
<1> HIDE DEF Goal
<1> QED BY <1>5, <1>6, <1>7, <1>8, <1>9 DEF QueueKept, QueueGets

FourOK(x) == SendOK(x) /\ CrossOK(x) /\ CastOK(x) /\ ResultOK(x)

\* A waiter that leaves with an error has nothing to answer for.
LEMMA ErrorOK ==
    ASSUME PoolTypes, NEW x \in Waiters, Answer(x, "error")
    PROVE  FourOK(x)'
<1>1. xpc'[x] = "returned" /\ xret'[x] = "error"
  BY DEF Answer, PoolTypes
<1> QED BY <1>1 DEF FourOK, SendOK, CrossOK, CastOK, ResultOK

\* The wait's own steps: its start,
LEMMA StartOK ==
    ASSUME PoolTypes, NEW x \in Waiters, WaitOK(x), WaitStart(x)
    PROVE  FourOK(x)'
<1>1. /\ xpc[x] = "idle" /\ xpc'[x] = "send" /\ before'[x] = {s \in Tasks : ret[s] = "ok"}
      /\ UNCHANGED <<ret, crossed, work, xret>>
  BY DEF WaitStart, PoolTypes, sched, pool
<1>2. xret'[x] # "ok"
  BY <1>1 DEF WaitOK, ResultOK
<1>3. ~crossed'[x] /\ ~In(work', x)
  BY <1>1 DEF WaitOK, SendOK
<1>4. \A s \in before'[x] : ret'[s] = "ok"
  BY <1>1
<1> QED BY <1>1, <1>2, <1>3, <1>4 DEF FourOK, SendOK, CrossOK, CastOK, ResultOK

\* What is before the bound task is ahead of it in the queue.
LEMMA PutOK ==
    ASSUME PoolTypes, AcceptedOK, RunsKept, NEW x \in Waiters, WaitOK(x), xpc[x] = "send", PutInto(x),
           xpc' = [xpc EXCEPT ![x] = "cross"], UNCHANGED <<before, xret>>
    PROVE  FourOK(x)'
<1>1. xpc'[x] = "cross" /\ xret'[x] # "ok" /\ before'[x] = before[x]
  BY DEF PoolTypes, WaitOK, ResultOK
<1>2. /\ before[x] \subseteq Tasks /\ work \in Seq(Items) /\ Len(work) \in Nat /\ x \in Items
      /\ ~crossed[x] /\ ~In(work, x)
  BY StubsFinite DEF PoolTypes, WaitOK, SendOK
<1>3. \A s \in before[x] : s \in finished \/ IsRun(s) \/ In(work, s)
  BY <1>2 DEF WaitOK, SendOK, AcceptedOK
<1>4. \A s \in before[x] : s \in finished \/ IsRun(s) => s \in finished' \/ IsRun(s)'
  BY <1>2, RunningKept
<1>5. CASE work' = Append(work, x) /\ UNCHANGED crossed
  <2>1. Len(work') = Len(work) + 1 /\ \A j \in 1..Len(work) : work'[j] = work[j]
    BY <1>2, <1>5, AppendIn
  <2>2. ASSUME NEW i \in 1..Len(work'), work'[i] = x, NEW s \in before[x]
        PROVE  s \in finished' \/ IsRun(s)' \/ \E j \in 1..i : work'[j] = s
    <3>1. i = Len(work) + 1
      BY <1>2, <2>1, <2>2 DEF In
    <3>2. In(work, s) => \E j \in 1..i : work'[j] = s
      BY <1>2, <2>1, <3>1 DEF In
    <3> QED BY <1>3, <1>4, <3>2
  <2>3. ~crossed'[x]
    BY <1>2, <1>5
  <2>4. CrossOK(x)'
    BY <1>1, <2>2, <2>3 DEF CrossOK
  <2> QED BY <1>1, <2>4 DEF FourOK, SendOK, CastOK, ResultOK
<1>6. CASE WorkQueueSize = 0 /\ \E w \in Workers : Begin(w, x)
  <2>1. crossed'[x]
    BY <1>6, BeginMeans
  <2>2. \A s \in before[x] : ~In(work, s)
    BY <1>2, <1>6 DEF In, PoolTypes
  <2>3. \A s \in before[x] : s \in finished' \/ IsRun(s)'
    BY <1>3, <1>4, <2>2
  <2>4. CrossOK(x)'
    BY <1>1, <2>1, <2>3 DEF CrossOK
  <2> QED BY <1>1, <2>4 DEF FourOK, SendOK, CastOK, ResultOK
<1> QED BY <1>5, <1>6 DEF PutInto

\* When p.done is closed all the tasks that were accepted have been executed.
LEMMA ClosedFinished ==
    ASSUME PoolTypes, WorkersOK, ClosingOK, AcceptedOK, done, ~NoCork, NEW s \in Tasks, ret[s] = "ok"
    PROVE  s \in finished
<1>1. ~IsRun(s)
  BY DEF IsRun, WorkersOK, ClosingOK, Closing3, done
<1>2. ~In(work, s)
  BY DEF In, ClosingOK, done
<1> QED BY <1>1, <1>2 DEF AcceptedOK

\* its bound task put, or not,
LEMMA SendStep ==
    ASSUME PoolTypes, WorkersOK, ClosingOK, AcceptedOK, RunsKept, NEW x \in Waiters, WaitOK(x), WaitSend(x)
    PROVE  FourOK(x)'
<1>1. CASE Put(x, {"loop", "drain"}) /\ xpc' = [xpc EXCEPT ![x] = "cross"] /\ UNCHANGED <<xret, expired>>
  <2>1. PutInto(x)
    BY <1>1, PutMeans
  <2> QED BY <1>1, <2>1, PutOK DEF WaitSend
<1>2. CASE done /\ Answer(x, "ok")
  <2>1. xpc'[x] = "returned" /\ xret'[x] = "ok" /\ before' = before /\ finished' = finished
    BY <1>2 DEF WaitSend, Answer, PoolTypes
  <2>2. \A s \in before[x] : s \in Tasks /\ ret[s] = "ok"
    BY DEF WaitSend, WaitOK, SendOK, PoolTypes
  <2>3. ~NoCork => before[x] \subseteq finished
    BY <1>2, <2>2, ClosedFinished
  <2> QED BY <2>1, <2>3 DEF FourOK, SendOK, CrossOK, CastOK, ResultOK
<1>3. CASE Answer(x, "error")
  BY <1>3, ErrorOK
<1> QED BY <1>1, <1>2, <1>3 DEF WaitSend

\* A worker that runs a task is in the list that barrier reads.
LEMMA ListHasRuns ==
    ASSUME WorkersOK, NEW s \in Tasks, IsRun(s)
    PROVE  \E w \in Workers : cur[w] = s /\ In(list, w)
BY DEF IsRun, WorkersOK

\* the bound task crossed or given up,
LEMMA CrossStep ==
    ASSUME PoolTypes, WorkersOK, NEW x \in Waiters, WaitOK(x), WaitCross(x)
    PROVE  FourOK(x)'
<1>1. CASE crossed[x] /\ xpc' = [xpc EXCEPT ![x] = "multicast"] /\ todo' = [todo EXCEPT ![x] = list]
           /\ UNCHANGED <<xret, expired>>
  <2>1. /\ xpc'[x] = "multicast" /\ todo'[x] = list /\ xret'[x] # "ok"
        /\ UNCHANGED <<before, cur, finished, direct>>
    BY <1>1 DEF WaitCross, PoolTypes, workers, WaitOK, ResultOK
  <2>2. \A s \in before[x] : s \in Tasks /\ (s \in finished \/ IsRun(s))
    BY <1>1 DEF WaitCross, WaitOK, CrossOK, PoolTypes
  <2>3. \A s \in before[x] : s \in finished \/ \E w \in Workers : cur[w] = s /\ In(list, w)
    BY <2>2, ListHasRuns
  <2>4. CastOK(x)'
    BY <2>1, <2>3 DEF CastOK
  <2> QED BY <2>1, <2>4 DEF FourOK, SendOK, CrossOK, ResultOK
<1>2. CASE Answer(x, "error")
  BY <1>2, ErrorOK
<1> QED BY <1>1, <1>2 DEF WaitCross

\* and the start of a barrier.
LEMMA BarrierOK ==
    ASSUME PoolTypes, WorkersOK, NEW x \in Waiters, WaitOK(x), BarrierStart(x)
    PROVE  FourOK(x)'
<1>1. /\ xpc'[x] = "multicast" /\ todo'[x] = list /\ xret'[x] # "ok"
      /\ before'[x] = {s \in Tasks : IsRun(s)} /\ UNCHANGED <<cur, finished, direct>>
  BY DEF BarrierStart, PoolTypes, workers, WaitOK, ResultOK, IsRun
<1>2. \A s \in before'[x] : \E w \in Workers : cur[w] = s /\ In(list, w)
  BY <1>1, ListHasRuns
<1>3. CastOK(x)'
  BY <1>1, <1>2 DEF CastOK
<1> QED BY <1>1, <1>3 DEF FourOK, SendOK, CrossOK, ResultOK

\* A worker that is left out has closed w.done, and so has no task.
LEMMA CastStep ==
    ASSUME PoolTypes, WorkersOK, NEW x \in Waiters, WaitOK(x), Multicast(x)
    PROVE  FourOK(x)'
<1> DEFINE w == Head(todo[x])
           t == Tail(todo[x])
<1>1. /\ w \in Workers /\ t \in Seq(Workers) /\ \A v : In(todo[x], v) <=> In(t, v) \/ v = w
  BY TailIn DEF Multicast, PoolTypes
<1>2. \A s \in before[x] :
         s \in Tasks /\ (s \in finished \/ \E v \in Workers : cur[v] = s /\ (In(todo[x], v) \/ direct[v] = x))
  BY DEF Multicast, WaitOK, CastOK, PoolTypes
<1>3. \/ /\ direct[w] = None /\ direct' = [direct EXCEPT ![w] = x]
         /\ todo' = [todo EXCEPT ![x] = t] /\ UNCHANGED <<xpc, xret>>
      \/ DoneClosed(w) /\ todo' = [todo EXCEPT ![x] = t] /\ UNCHANGED <<direct, xpc, xret>>
      \/ Answer(x, "error")
  BY DEF Multicast
<1>4. xpc[x] = "multicast" /\ UNCHANGED <<before, cur, finished>>
  BY DEF Multicast
<1> HIDE DEF w, t
<1>5. xret[x] # "ok"
  BY <1>4 DEF WaitOK, ResultOK
<1>6. CASE direct[w] = None /\ direct' = [direct EXCEPT ![w] = x] /\ todo' = [todo EXCEPT ![x] = t]
           /\ UNCHANGED <<xpc, xret>>
  <2>1. todo'[x] = t /\ direct'[w] = x /\ \A v \in Workers \ {w} : direct'[v] = direct[v]
    BY <1>1, <1>6 DEF PoolTypes
  <2>2. ASSUME NEW s \in before[x], NEW v \in Workers, cur[v] = s, In(todo[x], v) \/ direct[v] = x
        PROVE  In(t, v) \/ direct'[v] = x
    BY <1>1, <2>1, <2>2
  <2>3. CastOK(x)'
    BY <1>2, <1>4, <2>1, <2>2 DEF CastOK
  <2> QED BY <1>4, <1>5, <1>6, <2>3 DEF FourOK, SendOK, CrossOK, ResultOK
<1>7. CASE DoneClosed(w) /\ todo' = [todo EXCEPT ![x] = t] /\ UNCHANGED <<direct, xpc, xret>>
  <2>1. todo'[x] = t /\ cur[w] = None
    <3>1. cur[w] = None
      BY <1>1, <1>7 DEF WorkersOK, DoneClosed, Alive
    <3> QED BY <1>1, <1>7, <3>1 DEF PoolTypes
  <2>2. ASSUME NEW s \in before[x], NEW v \in Workers, cur[v] = s, In(todo[x], v) \/ direct[v] = x
        PROVE  In(t, v) \/ direct[v] = x
    <3>1. s \in Tasks
      BY <1>2
    <3>2. v # w
      BY <2>1, <2>2, <3>1
    <3> QED BY <1>1, <2>2, <3>2
  <2>3. CastOK(x)'
    BY <1>2, <1>4, <1>7, <2>1, <2>2 DEF CastOK
  <2> QED BY <1>4, <1>5, <1>7, <2>3 DEF FourOK, SendOK, CrossOK, ResultOK
<1>8. CASE Answer(x, "error")
  BY <1>8, ErrorOK
<1> QED BY <1>3, <1>6, <1>7, <1>8

\* With every answer collected no barrier task is left in front of a task.
LEMMA CollectStep ==
    ASSUME PoolTypes, RunsKept, NEW x \in Waiters, WaitOK(x), Collect(x)
    PROVE  FourOK(x)'
<1>1. xpc[x] = "multicast" /\ todo[x] = <<>> /\ UNCHANGED <<before, finished, todo>>
  BY DEF Collect
<1>2. CASE need[x] = 0 /\ Answer(x, "ok")
  <2>1. xpc'[x] = "returned" /\ xret'[x] = "ok"
    BY <1>2 DEF Answer, PoolTypes
  <2>2. \A w \in Workers : direct[w] # x
    <3>1. Sent(x) \in SUBSET Workers /\ Held(x) \in SUBSET Workers
      BY DEF Sent, Held
    <3>2. IsFiniteSet(Sent(x)) /\ Cardinality(Sent(x)) \in Nat /\ Cardinality(Held(x)) \in Nat
      BY <3>1, WorkersFinite
    <3>3. Cardinality(Sent(x)) = 0
      <4>1. need[x] >= Cardinality(Sent(x)) + Cardinality(Held(x)) + snap[x] /\ snap[x] \in {0, 1}
        BY DEF WaitOK, NeedOK, PoolTypes
      <4> QED BY <1>2, <3>2, <4>1
    <3>4. Sent(x) = {}
      BY <3>2, <3>3, FS_EmptySet
    <3> QED BY <3>4 DEF Sent
  <2>3. before[x] \subseteq finished
    BY <1>1, <2>2, EmptyIn DEF WaitOK, CastOK
  <2> QED BY <1>1, <2>1, <2>3 DEF FourOK, SendOK, CrossOK, CastOK, ResultOK
<1>3. CASE UNCHANGED <<xpc, xret>>
  <2>1. OwnKept(x)
    BY <1>1, <1>3 DEF OwnKept
  <2>2. CastOK(x)' /\ ResultOK(x)'
    BY <2>1, CastKept, ResultKept DEF WaitOK
  <2> QED BY <1>1, <1>3, <2>2 DEF FourOK, SendOK, CrossOK
<1>4. CASE Answer(x, "error")
  BY <1>4, ErrorOK
<1> QED BY <1>2, <1>3, <1>4 DEF Collect

\* Each step keeps what a wait has ahead of it.
LEMMA FourStep ==
    ASSUME PoolTypes, WorkersOK, ClosingOK, AcceptedOK, AnsweredOK, [Next]_vars,
           NEW x \in Waiters, WaitOK(x)
    PROVE  FourOK(x)'
<1>1. RunsKept /\ QueueKept
  BY RunsStep, QueueStep
<1>2. CASE OwnKept(x)
  <2>1. SendOK(x)' /\ CrossOK(x)' /\ CastOK(x)' /\ ResultOK(x)'
    BY <1>1, <1>2, SendKept, CrossKept, CastKept, ResultKept DEF WaitOK
  <2> QED BY <2>1 DEF FourOK
<1>3. CASE OwnStep(x)
  BY <1>1, <1>3, StartOK, SendStep, CrossStep, BarrierOK, CastStep, CollectStep, Zenon DEF OwnStep
<1> QED BY <1>2, <1>3, OwnOrKept

-----------------------------------------------------------------------------
(* The answers that a waiter needs *)

Owed(x) == Cardinality(Sent(x)) + Cardinality(Held(x)) + snap[x]

\* The tokens that a barrier has sent and holds can be counted.
LEMMA OwedTypes ==
    ASSUME PoolTypes, NEW x \in Waiters
    PROVE  /\ Sent(x) \in SUBSET Workers /\ Held(x) \in SUBSET Workers
           /\ Cardinality(Sent(x)) \in Nat /\ Cardinality(Held(x)) \in Nat /\ snap[x] \in {0, 1}
           /\ need[x] \in Nat
<1>1. Sent(x) \in SUBSET Workers /\ Held(x) \in SUBSET Workers
  BY DEF Sent, Held
<1> QED BY <1>1, WorkersFinite DEF PoolTypes

\* What a barrier needs covers its tokens if neither has changed,
LEMMA NeedSame ==
    ASSUME NEW x \in Waiters, NeedOK(x), Sent(x)' = Sent(x), Held(x)' = Held(x),
           snap'[x] = snap[x], need'[x] = need[x]
    PROVE  NeedOK(x)'
BY DEF NeedOK

\* A worker takes a barrier task out of its direct queue.
LEMMA NeedTaken ==
    ASSUME PoolTypes, NEW x \in Waiters, NeedOK(x), NEW w \in Workers, cur[w] = None, direct[w] # None,
           cur' = [cur EXCEPT ![w] = direct[w]], direct' = [direct EXCEPT ![w] = None], UNCHANGED <<need, snap>>
    PROVE  NeedOK(x)'
<1>1. CASE direct[w] = x
  <2>1. Sent(x)' = Sent(x) \ {w} /\ w \in Sent(x) /\ Held(x)' = Held(x) \cup {w} /\ w \notin Held(x)
    BY <1>1 DEF Sent, Held, PoolTypes
  <2>2. Cardinality(Sent(x)') = Cardinality(Sent(x)) - 1 /\ Cardinality(Held(x)') = Cardinality(Held(x)) + 1
    BY <2>1, OwedTypes, CountOne
  <2> QED BY <2>2, OwedTypes DEF NeedOK
<1>2. CASE direct[w] # x
  <2>1. Sent(x)' = Sent(x) /\ Held(x)' = Held(x)
    BY <1>2 DEF Sent, Held, PoolTypes
  <2> QED BY <2>1, NeedSame
<1> QED BY <1>1, <1>2

\* when a worker begins an item,
LEMMA NeedBegin ==
    ASSUME PoolTypes, NEW x \in Waiters, NeedOK(x), NEW w \in Workers, cur[w] = None,
           NEW i \in Tasks \cup Waiters, Begin(w, i), UNCHANGED <<direct, need, snap>>
    PROVE  NeedOK(x)'
<1>1. cur' = cur \/ (i \notin Waiters /\ cur' = [cur EXCEPT ![w] = i])
  BY DEF Begin
<1>2. Held(x)' = Held(x) /\ Sent(x)' = Sent(x)
  BY <1>1 DEF Held, Sent, PoolTypes
<1> QED BY <1>2, NeedSame

\* when an item is put,
LEMMA NeedPut ==
    ASSUME PoolTypes, NEW x \in Waiters, NeedOK(x), NEW i \in Tasks \cup Waiters, PutInto(i),
           UNCHANGED <<direct, need, snap>>
    PROVE  NeedOK(x)'
<1>1. CASE UNCHANGED cur
  BY <1>1, NeedSame DEF Held, Sent
<1>2. CASE \E w \in Workers : cur[w] = None /\ Begin(w, i)
  BY <1>2, NeedBegin
<1> QED BY <1>1, <1>2 DEF PutInto

\* and across any step.
LEMMA NeedStep ==
    ASSUME PoolTypes, WorkersOK, ClosingOK, [Next]_vars, NEW x \in Waiters, NeedOK(x)
    PROVE  NeedOK(x)'
<1> DEFINE Still == UNCHANGED <<cur, direct, need, snap>>
<1>1. Still => NeedOK(x)'
  <2> SUFFICES ASSUME Still PROVE NeedOK(x)'
    OBVIOUS
  <2> QED BY NeedSame DEF Held, Sent
<1>2. ASSUME NEW w \in Workers, Finish(w) PROVE NeedOK(x)'
  <2>1. cur' = [cur EXCEPT ![w] = None] /\ cur[w] # None /\ UNCHANGED <<direct, need>>
    BY <1>2 DEF Finish, workers
  <2>2. CASE cur[w] = x
    <3>1. Held(x)' = Held(x) \ {w} /\ w \in Held(x) /\ Sent(x)' = Sent(x)
      BY <2>1, <2>2 DEF Held, Sent, PoolTypes
    <3>2. Cardinality(Held(x)') = Cardinality(Held(x)) - 1
      BY <3>1, OwedTypes, CountOne
    <3>3. snap'[x] <= snap[x] + 1 /\ snap'[x] \in {0, 1}
      BY <1>2, <2>2 DEF Finish, PoolTypes
    <3> QED BY <2>1, <3>1, <3>2, <3>3, OwedTypes DEF NeedOK
  <2>3. CASE cur[w] # x
    <3>1. Held(x)' = Held(x) /\ Sent(x)' = Sent(x)
      BY <2>1, <2>3 DEF Held, Sent, PoolTypes
    <3>2. snap'[x] = snap[x]
      BY <1>2, <2>3 DEF Finish, PoolTypes
    <3> QED BY <2>1, <3>1, <3>2, NeedSame
  <2> QED BY <2>2, <2>3
<1>3. ASSUME NEW w \in Workers, TakeDirect(w) PROVE NeedOK(x)'
  BY <1>3, NeedTaken DEF TakeDirect, waiter
<1>4. ASSUME NEW w \in Workers, TakeWork(w) PROVE NeedOK(x)'
  <2>1. Head(work) \in Tasks \cup Waiters
    BY <1>4, HeadIsNoStub DEF TakeWork, Alive
  <2>2. cur[w] = None /\ UNCHANGED <<direct, need, snap>>
    BY <1>4 DEF TakeWork
  <2>3. cur' = cur \/ (Head(work) \notin Waiters /\ cur' = [cur EXCEPT ![w] = Head(work)])
    BY <1>4 DEF TakeWork, Begin
  <2>4. Held(x)' = Held(x) /\ Sent(x)' = Sent(x)
    BY <2>2, <2>3 DEF Held, Sent, PoolTypes
  <2> QED BY <2>2, <2>4, NeedSame
<1>5. ASSUME NEW w \in Workers, CorkDirect(w) PROVE NeedOK(x)'
  <2>1. CASE direct[w] = None
    <3>1. cur' = cur /\ direct' = [direct EXCEPT ![w] = STUB] /\ UNCHANGED <<need, snap>>
      BY <1>5, <2>1 DEF CorkDirect, waiter
    <3>2. Held(x)' = Held(x) /\ Sent(x)' = Sent(x)
      BY <2>1, <3>1 DEF Held, Sent, PoolTypes
    <3> QED BY <3>1, <3>2, NeedSame
  <2>2. CASE direct[w] # None
    <3>1. /\ cur' = [cur EXCEPT ![w] = direct[w]] /\ direct' = [direct EXCEPT ![w] = None]
          /\ cur[w] = None /\ UNCHANGED <<need, snap>>
      BY <1>5, <2>2 DEF CorkDirect, waiter
    <3> QED BY <2>2, <3>1, NeedTaken
  <2> QED BY <2>1, <2>2
<1>6. ASSUME NEW w \in Workers, Expire(w) \/ SeeKill(w) \/ Drained(w) \/ Unlist(w) PROVE Still
  BY <1>6 DEF Expire, SeeKill, Drained, Unlist, waiter
<1>7. ASSUME NEW s \in Tasks, ScheduleTry(s) \/ ScheduleSelect(s) PROVE NeedOK(x)'
  <2>1. PutInto(s) \/ UNCHANGED cur
    BY <1>7, PutMeans DEF ScheduleTry, ScheduleSelect
  <2>2. UNCHANGED <<direct, need, snap>>
    BY <1>7 DEF ScheduleTry, ScheduleSelect
  <2> QED BY <1>1, <2>1, <2>2, NeedPut
<1>8. ASSUME NEW s \in Tasks, ScheduleCancel(s) PROVE Still
  BY <1>8 DEF ScheduleCancel, workers, waiter
<1>9. ASSUME NEW s \in Tasks, Spawn(s) PROVE NeedOK(x)'
  <2>1. cur[s] = None /\ UNCHANGED <<direct, need, snap>>
    BY <1>9 DEF Spawn, waiter, WorkersOK, Alive
  <2>2. cur' = cur \/ cur' = [cur EXCEPT ![s] = s]
    BY <1>9 DEF Spawn, Start
  <2>3. Held(x)' = Held(x) /\ Sent(x)' = Sent(x)
    BY <2>1, <2>2 DEF Held, Sent, PoolTypes
  <2> QED BY <2>1, <2>3, NeedSame
<1>10. ASSUME CloseKill \/ Closing PROVE Still
  BY <1>10 DEF CloseKill, Closing, CloseWait, CloseFill, CloseDrain, workers, waiter
<1>11. ASSUME NEW y \in Waiters, WaitStart(y) \/ BarrierStart(y) \/ WaitCross(y) \/ TimerFires(y) PROVE Still
  BY <1>11 DEF WaitStart, BarrierStart, WaitCross, TimerFires, workers
<1>12. ASSUME NEW y \in Waiters, WaitSend(y) PROVE NeedOK(x)'
  <2>1. PutInto(y) \/ UNCHANGED cur
    BY <1>12, PutMeans DEF WaitSend
  <2>2. UNCHANGED <<direct, need, snap>>
    BY <1>12 DEF WaitSend
  <2> QED BY <1>1, <2>1, <2>2, NeedPut
<1>13. ASSUME NEW y \in Waiters, Multicast(y) PROVE NeedOK(x)'
  <2>1. CASE UNCHANGED <<direct, need>>
    BY <1>1, <1>13, <2>1 DEF Multicast
  <2>2. ASSUME NEW w \in Workers, direct[w] = None, direct' = [direct EXCEPT ![w] = y],
               need' = [need EXCEPT ![y] = need[y] + 1]
        PROVE  NeedOK(x)'
    <3>1. UNCHANGED <<cur, snap>> /\ Held(x)' = Held(x)
      BY <1>13 DEF Multicast, Held
    <3>2. CASE x = y
      <4>1. Sent(x)' = Sent(x) \cup {w} /\ w \notin Sent(x) /\ need'[x] = need[x] + 1
        BY <2>2, <3>2 DEF Sent, PoolTypes
      <4>2. Cardinality(Sent(x)') = Cardinality(Sent(x)) + 1
        BY <4>1, OwedTypes, CountOne
      <4> QED BY <3>1, <4>1, <4>2, OwedTypes DEF NeedOK
    <3>3. CASE x # y
      <4>1. Sent(x)' = Sent(x) /\ need'[x] = need[x]
        BY <2>2, <3>3 DEF Sent, PoolTypes
      <4> QED BY <3>1, <4>1, NeedSame
    <3> QED BY <3>2, <3>3
  <2>3. Head(todo[y]) \in Workers
    BY <1>13, TailIn DEF Multicast, PoolTypes
  <2> QED BY <1>13, <2>1, <2>2, <2>3 DEF Multicast
<1>14. ASSUME NEW y \in Waiters, Collect(y) PROVE NeedOK(x)'
  <2>1. CASE UNCHANGED <<need, snap>>
    BY <1>1, <1>14, <2>1 DEF Collect, workers
  <2>2. CASE snap[y] = 1 /\ need[y] > 0 /\ snap' = [snap EXCEPT ![y] = 0] /\ need' = [need EXCEPT ![y] = need[y] - 1]
    <3>1. Held(x)' = Held(x) /\ Sent(x)' = Sent(x)
      BY <1>14 DEF Collect, workers, Held, Sent
    <3>2. CASE x = y
      <4>1. snap[x] = 1 /\ snap'[x] = 0 /\ need'[x] = need[x] - 1
        BY <2>2, <3>2 DEF PoolTypes
      <4> QED BY <3>1, <4>1, OwedTypes DEF NeedOK
    <3>3. CASE x # y
      <4>1. snap'[x] = snap[x] /\ need'[x] = need[x]
        BY <2>2, <3>3 DEF PoolTypes
      <4> QED BY <3>1, <4>1, NeedSame
    <3> QED BY <3>2, <3>3
  <2> QED BY <1>14, <2>1, <2>2 DEF Collect
<1>15. UNCHANGED vars => Still
  BY DEF vars, workers, waiter
<1> HIDE DEF Still
<1> QED BY <1>1, <1>2, <1>3, <1>4, <1>5, <1>6, <1>7, <1>8, <1>9, <1>10, <1>11, <1>12, <1>13, <1>14, <1>15, Zenon
    DEF Next, Work, Schedule, Waiting

-----------------------------------------------------------------------------
(* The theorems *)

\* The invariant holds in the beginning,
LEMMA PoolInit == Init => PoolInv
<1> SUFFICES ASSUME Init PROVE PoolInv
  OBVIOUS
<1> USE DEF Init
<1>1. list \in Seq(Unstoppable) /\ \A w \in Unstoppable : In(list, w)
  BY NewList
<1>2. PoolTypes
  <2>1. list \in Seq(Workers)
    BY <1>1, SeqMonotonic
  <2>2. sem \in Int
    BY WorkersFinite, FS_CardinalityType
  <2>3. work \in Seq(Items) /\ Len(work) = 0
    OBVIOUS
  <2>4. crossed \in [Waiters -> BOOLEAN]
    BY Zenon
  <2>5. todo \in [Waiters -> Seq(Workers)]
    OBVIOUS
  <2> QED BY <2>1, <2>2, <2>3, <2>4, <2>5 DEF PoolTypes
<1>3. WorkersOK
  BY <1>1, EmptyIn DEF WorkersOK, Alive, DoneClosed
<1>4. ClosingOK
  BY DEF ClosingOK, Closing3
<1>5. AcceptedOK /\ AnsweredOK
  BY DEF AcceptedOK, AnsweredOK
<1>6. TokensAccounted
  <2>1. AliveSet = Unstoppable /\ SpawnSet = {}
    BY DEF AliveSet, SpawnSet, Alive
  <2>2. Cardinality(SpawnSet) = 0
    BY <2>1, FS_EmptySet
  <2>3. Cardinality(Unstoppable) \in Nat
    BY WorkersFinite, FS_CardinalityType
  <2>4. Balance
    BY <2>1, <2>2, <2>3 DEF Balance
  <2> QED BY <2>4 DEF Balance, TokensAccounted, AliveSet, SpawnSet
<1>7. ASSUME NEW x \in Waiters PROVE WaitOK(x)
  <2>1. Sent(x) = {} /\ Held(x) = {}
    BY DEF Sent, Held
  <2>2. Cardinality(Sent(x)) = 0 /\ Cardinality(Held(x)) = 0
    BY <2>1, FS_EmptySet
  <2>3. NeedOK(x)
    BY <2>2 DEF NeedOK
  <2>4. SendOK(x) /\ CrossOK(x) /\ CastOK(x) /\ ResultOK(x)
    BY EmptyIn DEF SendOK, CrossOK, CastOK, ResultOK
  <2> QED BY <2>3, <2>4 DEF WaitOK
<1> QED BY <1>2, <1>3, <1>4, <1>5, <1>6, <1>7 DEF PoolInv

\* is kept by each step,
LEMMA PoolStep == PoolInv /\ [Next]_vars => PoolInv'
<1> SUFFICES ASSUME PoolInv, [Next]_vars PROVE PoolInv'
  OBVIOUS
<1>1. PoolTypes /\ WorkersOK /\ ClosingOK /\ AcceptedOK /\ AnsweredOK /\ TokensAccounted
      /\ \A x \in Waiters : WaitOK(x)
  BY DEF PoolInv
<1>2. PoolTypes' /\ WorkersOK' /\ ClosingOK'
  BY <1>1, TypesStep, WorkersStep, ClosingOKStep
<1>3. AcceptedOK' /\ AnsweredOK' /\ TokensAccounted'
  BY <1>1, AcceptedStep, AnsweredStep, TokensStep
<1>4. ASSUME NEW x \in Waiters PROVE WaitOK(x)'
  <2>1. WaitOK(x) /\ NeedOK(x)
    BY <1>1 DEF WaitOK
  <2>2. FourOK(x)'
    BY <1>1, <2>1, FourStep
  <2>3. NeedOK(x)'
    BY <1>1, <2>1, NeedStep
  <2> QED BY <2>2, <2>3 DEF WaitOK, FourOK
<1> QED BY <1>2, <1>3, <1>4 DEF PoolInv

\* and so holds always.
LEMMA PoolInvariant == Spec => []PoolInv
<1>1. Init => PoolInv
  BY PoolInit
<1>2. PoolInv /\ [Next]_vars => PoolInv'
  BY PoolStep
<1> QED BY <1>1, <1>2, PTL DEF Spec

\* The tokens of p.sem are those of the living workers and of the schedulers
\* about to spawn (schedule, spawn, onStop): none is lost on any path.
THEOREM TokensAccountedHolds == Spec => []TokensAccounted
<1>1. PoolInv => TokensAccounted
  BY DEF PoolInv
<1> QED BY <1>1, PoolInvariant, PTL

\* When p.done is closed no worker lives, every task that a Schedule* call
\* accepted was executed, and the queue holds nothing but the stubs of cork();
\* no worker ever runs a stub.
THEOREM DoneMeansDoneHolds == Spec => []DoneMeansDone
<1>1. ASSUME PoolInv PROVE DoneMeansDone
  <2>1. PoolTypes /\ WorkersOK /\ ClosingOK /\ AcceptedOK
    BY <1>1 DEF PoolInv
  <2>2. \A w \in Workers : cur[w] # STUB
    BY <2>1 DEF PoolTypes
  <2>3. ASSUME done, ~NoCork
        PROVE  /\ \A w \in Workers : ~Alive(w)
               /\ \A s \in Tasks : ret[s] = "ok" => s \in finished
               /\ Len(work) = WorkQueueSize /\ \A i \in DOMAIN work : work[i] = STUB
    <3>1. \A w \in Workers : ~Alive(w)
      BY <2>1, <2>3 DEF ClosingOK, Closing3, done
    <3>2. \A s \in Tasks : ret[s] = "ok" => s \in finished
      BY <2>1, <2>3, ClosedFinished
    <3>3. DOMAIN work = 1..Len(work)
      BY <2>1, LenProperties DEF PoolTypes
    <3> QED BY <2>1, <2>3, <3>1, <3>2, <3>3 DEF ClosingOK, done
  <2> QED BY <2>2, <2>3 DEF DoneMeansDone
<1> QED BY <1>1, PoolInvariant, PTL

\* Wait returns nil only after the tasks scheduled before it, Barrier only after
\* those that the workers ran when it began, have been executed (barrier,
\* multicast), while the pool grows, shrinks or closes.
THEOREM WaitMeansFinishedHolds == Spec => []WaitMeansFinished
<1>1. PoolInv => WaitMeansFinished
  BY DEF PoolInv, WaitOK, ResultOK, WaitMeansFinished
<1> QED BY <1>1, PoolInvariant, PTL
=============================================================================
