--------------------------- MODULE TaskGroupProofs ---------------------------
(* What TaskGroup.tla states of the group of tasks, proved for any number of   *)
(* callers, slots, tasks and calls of Cancel.                                  *)
EXTENDS TaskGroup, FiniteSetTheorems, FunctionTheorems, WellFoundedInduction, TLAPS

USE TaskGroupAssumption DEF Slots, Tasks

-----------------------------------------------------------------------------
(* The free slots, counted from the first one *)

Rank(j) == Cardinality({l \in 1..j : Free(l)})
Taken == {j \in Slots : ~Free(j)}

\* A set of numbers that is not empty has a least element.
LEMMA Least ==
    ASSUME NEW T \in SUBSET Nat, T # {}
    PROVE  \E x \in T : \A y \in T : x <= y
<1>1. PICK x \in T : \A y \in T : ~(<<y, x>> \in OpToRel(<, Nat))
  BY NatLessThanWellFounded, WFMin, Zenon
<1>2. ASSUME NEW y \in T PROVE x <= y
  <2>1. <<y, x>> \notin {ss \in Nat \X Nat : ss[1] < ss[2]}
    BY <1>1 DEF OpToRel
  <2> QED BY <2>1
<1> QED BY <1>2

\* The rank grows by one at a free slot.
LEMMA RankStep ==
    ASSUME NEW j \in Slots
    PROVE  /\ Rank(j) \in Nat /\ Rank(j - 1) \in Nat
           /\ Rank(j) = IF Free(j) THEN Rank(j - 1) + 1 ELSE Rank(j - 1)
<1> DEFINE A == {l \in 1..j - 1 : Free(l)}
           B == {l \in 1..j : Free(l)}
<1>1. IsFiniteSet(1..j - 1) /\ IsFiniteSet(1..j)
  BY FS_Interval
<1>2. IsFiniteSet(A) /\ IsFiniteSet(B)
  BY <1>1, FS_Subset, Zenon
<1>3. Cardinality(A) \in Nat /\ Cardinality(B) \in Nat
  BY <1>2, FS_CardinalityType
<1>4. CASE Free(j)
  <2>1. B = A \cup {j} /\ j \notin A
    BY <1>4
  <2> QED BY <1>2, <1>3, <1>4, <2>1, FS_AddElement DEF Rank
<1>5. CASE ~Free(j)
  <2>1. B = A
    BY <1>5
  <2> QED BY <1>3, <1>5, <2>1 DEF Rank
<1> QED BY <1>4, <1>5

\* The ranks of the slots do not fall.
LEMMA RankMonotone ==
    ASSUME NEW j \in 0..N, NEW l \in 0..N, j <= l
    PROVE  Rank(j) <= Rank(l)
<1>1. IsFiniteSet(1..l)
  BY FS_Interval
<1>2. IsFiniteSet({i \in 1..l : Free(i)})
  BY <1>1, FS_Subset, Zenon
<1>3. {i \in 1..j : Free(i)} \subseteq {i \in 1..l : Free(i)}
  OBVIOUS
<1> QED BY <1>2, <1>3, FS_Subset DEF Rank

\* Different free slots have different ranks.
LEMMA RankInjective ==
    ASSUME NEW j \in Slots, NEW l \in Slots, Free(j), Free(l), Rank(j) = Rank(l)
    PROVE  j = l
<1>1. ASSUME NEW a \in Slots, NEW b \in Slots, Free(b), a < b PROVE Rank(a) < Rank(b)
  <2>1. a <= b - 1 /\ a \in 0..N /\ b - 1 \in 0..N
    BY <1>1
  <2>2. Rank(a) <= Rank(b - 1)
    BY <2>1, RankMonotone
  <2>3. Rank(b) = Rank(b - 1) + 1 /\ Rank(b - 1) \in Nat
    BY <1>1, RankStep
  <2>4. Rank(a) \in Nat
    BY RankStep
  <2> QED BY <2>2, <2>3, <2>4
<1>2. ~(j < l) /\ ~(l < j)
  BY <1>1, RankStep
<1> QED BY <1>2

\* Every number up to the rank of the last slot is the rank of a free slot.
LEMMA RankOnto ==
    ASSUME NEW r \in 1..Rank(N)
    PROVE  \E j \in Slots : Free(j) /\ Rank(j) = r
<1> DEFINE T == {j \in Slots : r <= Rank(j)}
<1>1. N \in T
  <2>1. N \in Slots
    BY DEF TaskGroupAssumption
  <2>2. Rank(N) \in Nat
    BY <2>1, RankStep
  <2> QED BY <2>1, <2>2
<1>2. PICK j \in T : \A l \in T : j <= l
  <2>1. T \in SUBSET Nat /\ T # {}
    BY <1>1
  <2> HIDE DEF T
  <2> QED BY <2>1, Least
<1>3. Rank(j - 1) < r
  <2>1. CASE j = 1
    <3>1. {l \in 1..0 : Free(l)} = {}
      OBVIOUS
    <3>2. Rank(0) = 0
      BY <3>1, FS_EmptySet DEF Rank
    <3> QED BY <2>1, <3>2, RankStep
  <2>2. CASE j # 1
    <3>1. j - 1 \in Slots /\ j - 1 \notin T
      BY <1>2, <2>2
    <3>2. Rank(j - 1) \in Nat /\ r \in Nat
      BY <1>2, RankStep
    <3> QED BY <3>1, <3>2
  <2> QED BY <2>1, <2>2
<1>4. Rank(j) \in Nat /\ Rank(j - 1) \in Nat
      /\ Rank(j) = IF Free(j) THEN Rank(j - 1) + 1 ELSE Rank(j - 1)
  BY RankStep
<1>5. r <= Rank(j) /\ r \in Nat
  BY RankStep
<1>6. Free(j) /\ Rank(j) = r
  BY <1>3, <1>4, <1>5
<1> QED BY <1>6

\* All slots but the taken ones are free.
LEMMA RankTop == IsFiniteSet(Taken) /\ Cardinality(Taken) \in Nat
                 /\ Rank(N) = N - Cardinality(Taken) /\ Rank(N) \in Nat
<1>1. IsFiniteSet(Slots) /\ Cardinality(Slots) = N
  BY FS_Interval
<1>2. IsFiniteSet(Taken)
  BY <1>1, FS_Subset, Zenon DEF Taken
<1>3. {l \in 1..N : Free(l)} = Slots \ Taken
  BY DEF Taken
<1>4. Slots \cap Taken = Taken
  BY DEF Taken
<1>5. Cardinality(Slots \ Taken) = N - Cardinality(Taken)
  <2>1. Cardinality(Slots \ Taken) = Cardinality(Slots) - Cardinality(Slots \cap Taken)
    BY <1>1, FS_Difference, Zenon
  <2> QED BY <1>1, <1>4, <2>1
<1>6. Rank(N) \in Nat
  <2>1. N \in Slots
    BY DEF TaskGroupAssumption
  <2> QED BY <2>1, RankStep
<1> QED BY <1>2, <1>3, <1>5, <1>6, FS_CardinalityType DEF Rank

-----------------------------------------------------------------------------
(* Do *)

\* The free slots that k new tasks take are k.
LEMMA NewSlots ==
    ASSUME NEW k \in 0..Rank(N)
    PROVE  LET New == {j \in Slots : Free(j) /\ Rank(j) <= k}
           IN  IsFiniteSet(New) /\ Cardinality(New) = k
<1> DEFINE New == {j \in Slots : Free(j) /\ Rank(j) <= k}
           f   == [j \in New |-> Rank(j)]
<1>1. Rank(N) \in Nat /\ k \in Nat
  BY RankTop
<1>2. ASSUME NEW j \in New PROVE Rank(j) \in 1..k
  BY <1>1, RankStep
<1>3. f \in [New -> 1..k]
  BY <1>2
<1>4. \A a, b \in New : f[a] = f[b] => a = b
  BY RankInjective
<1>5. ASSUME NEW r \in 1..k PROVE \E j \in New : f[j] = r
  <2>1. r \in 1..Rank(N)
    BY <1>1
  <2>2. PICK j \in Slots : Free(j) /\ Rank(j) = r
    BY <2>1, RankOnto
  <2>3. j \in New
    BY <2>2
  <2> QED BY <2>2, <2>3
<1>6. f \in Bijection(New, 1..k)
  <2> HIDE DEF New, f
  <2> QED BY <1>3, <1>4, <1>5, Fun_IsBij
<1>7. IsFiniteSet(Slots) /\ IsFiniteSet(1..k) /\ Cardinality(1..k) = k
  BY <1>1, FS_Interval
<1>8. IsFiniteSet(New)
  <2>1. New \subseteq Slots
    OBVIOUS
  <2> HIDE DEF New
  <2> QED BY <1>7, <2>1, FS_Subset
<1>9. Cardinality(New) = k
  <2> HIDE DEF New, f
  <2>1. ExistsBijection(New, 1..k)
    BY <1>6, Fun_ExistsBij
  <2> QED BY <1>7, <1>8, <2>1, FS_Bijection
<1> QED BY <1>8, <1>9

\* What pending becomes when k new tasks start: a slot that is taken keeps its
\* task, each new task has a slot that was free, and no two of them the same.
Started(p, k) ==
    /\ p \in [Slots -> Tasks \cup {None}]
    /\ \A j \in Slots : ~Free(j) => p[j] = pending[j]
    /\ \A j \in Slots : Free(j) => p[j] = None \/ p[j] \in started + 1..started + k
    /\ \A i \in started + 1..started + k : \E j \in Slots : Free(j) /\ p[j] = i
    /\ \A j, l \in Slots : Free(j) /\ Free(l) /\ p[j] = p[l] /\ p[j] # None => j = l
    /\ Cardinality({j \in Slots : p[j] # None}) = Cardinality(Taken) + k

\* Starting k tasks fills the first k free slots with different tasks.
LEMMA StartSlots ==
    ASSUME pending \in [Slots -> Tasks \cup {None}], started \in Nat,
           NEW k \in 0..Rank(N), started + k <= MaxTasks, NEW p, p = Start(k)
    PROVE  Started(p, k)
<1> DEFINE New == {j \in Slots : Free(j) /\ Rank(j) <= k}
<1>1. Rank(N) \in Nat /\ k \in Nat
  BY RankTop
<1>2. \A j \in Slots : Rank(j) \in Nat /\ (Free(j) => Rank(j) # 0)
  BY RankStep
<1>3. p = [j \in Slots |-> IF Free(j) /\ Rank(j) <= k THEN started + Rank(j) ELSE pending[j]]
  BY Zenon DEF Start, Rank
<1>4. \A j \in Slots : ~Free(j) => p[j] = pending[j]
  BY <1>3
<1>5. \A j \in Slots : Free(j) => p[j] = None \/ p[j] \in started + 1..started + k
  <2>1. ASSUME NEW j \in Slots, Free(j), Rank(j) <= k
        PROVE started + Rank(j) \in started + 1..started + k
    BY <1>1, <1>2, <2>1
  <2>2. ASSUME NEW j \in Slots, Free(j), ~(Rank(j) <= k) PROVE p[j] = None
    BY <1>3, <2>2 DEF Free
  <2> QED BY <1>3, <2>1, <2>2
<1>6. \A i \in started + 1..started + k : i \in Tasks
  BY <1>1
<1>7. p \in [Slots -> Tasks \cup {None}]
  <2>1. \A j \in Slots : p[j] \in Tasks \cup {None}
    BY <1>4, <1>5, <1>6
  <2> QED BY <1>3, <2>1
<1>8. ASSUME NEW i \in started + 1..started + k
      PROVE  \E j \in Slots : Free(j) /\ p[j] = i
  <2>1. i - started \in 1..Rank(N) /\ i - started <= k /\ started + (i - started) = i
    BY <1>1
  <2>2. PICK j \in Slots : Free(j) /\ Rank(j) = i - started
    BY <2>1, RankOnto
  <2> QED BY <1>3, <2>1, <2>2
<1>9. ASSUME NEW j \in Slots, NEW l \in Slots, Free(j), Free(l), p[j] = p[l], p[j] # None
      PROVE  j = l
  <2>1. ASSUME NEW h \in Slots, Free(h), p[h] # None PROVE p[h] = started + Rank(h)
    BY <1>3, <2>1 DEF Free
  <2>2. Rank(j) = Rank(l)
    BY <1>2, <1>9, <2>1
  <2> QED BY <1>9, <2>2, RankInjective
<1>10. {j \in Slots : p[j] # None} = Taken \cup New
  <2>1. \A j \in New : started + Rank(j) # None
    <3>1. ASSUME NEW j \in New PROVE started + Rank(j) \in 1..MaxTasks
      BY <1>1, <1>2
    <3> QED BY <3>1
  <2>2. ASSUME NEW j \in Slots PROVE p[j] # None <=> (j \in Taken \/ j \in New)
    BY <1>3, <2>1 DEF Taken, Free
  <2> QED BY <2>2 DEF Taken
<1>11. Taken \cap New = {}
  BY DEF Taken
<1>12. Cardinality(Taken \cup New) = Cardinality(Taken) + k
  <2>1. IsFiniteSet(Taken) /\ Cardinality(Taken) \in Nat
    BY RankTop
  <2>2. IsFiniteSet(New) /\ Cardinality(New) = k
    BY NewSlots, Zenon
  <2> HIDE DEF New
  <2>3. Cardinality(Taken \cup New)
           = Cardinality(Taken) + Cardinality(New) - Cardinality(Taken \cap New)
    BY <2>1, <2>2, FS_Union
  <2>4. Cardinality(Taken \cap New) = 0
    BY <1>11, FS_EmptySet
  <2> QED BY <1>1, <2>1, <2>2, <2>3, <2>4
<1>13. \A j, l \in Slots : Free(j) /\ Free(l) /\ p[j] = p[l] /\ p[j] # None => j = l
  BY <1>9, Zenon
<1>14. Cardinality({j \in Slots : p[j] # None}) = Cardinality(Taken) + k
  BY <1>10, <1>12, Zenon
<1> HIDE DEF New
<1> QED BY <1>4, <1>5, <1>7, <1>8, <1>13, <1>14, Zenon DEF Started

-----------------------------------------------------------------------------
(* The tasks of the slots *)

TaskRec == [state : {"none", "run", "sent", "done"}, by : Callers \cup {None}, slot : Slots]

\* A slot that is taken holds the channel of a task that has not left the group
\* yet and that t.cancel reaches; a task that runs and was not told to stop has
\* its slot, so that its slot number cannot be given to another one.
SlotInv ==
    /\ pending \in [Slots -> Tasks \cup {None}]
    /\ task \in [Tasks -> TaskRec]
    /\ started \in Nat
    /\ n = Cardinality(Taken)
    /\ \A i \in Tasks : task[i].state # "none" => i <= started
    /\ \A j \in Slots : ~Free(j) =>
          /\ task[pending[j]].slot = j
          /\ task[pending[j]].state \in {"run", "sent"}
          /\ task[pending[j]].by \in chain
    /\ \A i \in Tasks : Heeded(i) => pending[task[i].slot] = i

\* Do gives each new task a slot of its own and puts its context into t.cancel.
LEMMA DoSlots ==
    ASSUME SlotInv, NEW c \in Callers, Do(c)
    PROVE  SlotInv'
<1>0. PICK m \in Slots :
          \E k \in 0..(IF m > n THEN m - n ELSE 0) :
             /\ started + k <= MaxTasks
             /\ pending' = Start(k)
             /\ n' = n + k
             /\ IF (IF m > n THEN m - n ELSE 0) > 0
                THEN chain' = Chained(c) ELSE UNCHANGED chain
             /\ task' = [i \in Tasks |->
                            IF i \in started + 1..started + k
                            THEN [state |-> "run", by |-> c,
                                  slot |-> CHOOSE j \in Slots : pending'[j] = i]
                            ELSE task[i]]
             /\ started' = started + k
  BY Zenon DEF Do
<1>1. PICK k \in 0..(IF m > n THEN m - n ELSE 0) :
          /\ started + k <= MaxTasks
          /\ pending' = Start(k)
          /\ n' = n + k
          /\ IF (IF m > n THEN m - n ELSE 0) > 0 THEN chain' = Chained(c) ELSE UNCHANGED chain
          /\ task' = [i \in Tasks |->
                         IF i \in started + 1..started + k
                         THEN [state |-> "run", by |-> c,
                               slot |-> CHOOSE j \in Slots : pending'[j] = i]
                         ELSE task[i]]
          /\ started' = started + k
  BY <1>0, Zenon
<1>2. UNCHANGED cancelled
  BY Zenon DEF Do
<1>3. /\ IsFiniteSet(Taken) /\ n \in Nat /\ n = Cardinality(Taken)
      /\ Rank(N) = N - n /\ Rank(N) \in Nat
  BY RankTop DEF SlotInv
<1>4. k \in 0..Rank(N) /\ k \in Nat /\ started \in Nat
  BY <1>1, <1>3 DEF SlotInv
<1>5. chain \subseteq chain' /\ (k > 0 => c \in chain')
  <2>1. IF m > n /\ m - n > 0 THEN chain' = chain \cup {c} ELSE chain' = chain
    BY <1>1, <1>3 DEF Chained
  <2>2. k > 0 => m > n /\ m - n > 0
    BY <1>1, <1>3
  <2> QED BY <2>1, <2>2
<1>6. /\ pending' \in [Slots -> Tasks \cup {None}]
      /\ \A j \in Slots : ~Free(j) => pending'[j] = pending[j]
      /\ \A j \in Slots : Free(j) => pending'[j] = None \/ pending'[j] \in started + 1..started + k
      /\ \A i \in started + 1..started + k : \E j \in Slots : Free(j) /\ pending'[j] = i
      /\ \A j, l \in Slots : Free(j) /\ Free(l) /\ pending'[j] = pending'[l]
                                /\ pending'[j] # None => j = l
      /\ Cardinality({j \in Slots : pending'[j] # None}) = n + k
  <2>1. pending \in [Slots -> Tasks \cup {None}]
    BY DEF SlotInv
  <2>2. started + k <= MaxTasks /\ pending' = Start(k)
    BY <1>1
  <2>3. Started(pending', k)
    BY <1>4, <2>1, <2>2, StartSlots, Zenon
  <2> QED BY <1>3, <2>3, Zenon DEF Started
<1>7. \A i \in Tasks : i \in started + 1..started + k => task[i].state = "none"
  BY <1>4 DEF SlotInv
<1>8. ASSUME NEW i \in Tasks, i \notin started + 1..started + k PROVE task'[i] = task[i]
  BY <1>1, <1>8
<1>9. ASSUME NEW i \in Tasks, i \in started + 1..started + k
      PROVE  /\ task'[i].state = "run" /\ task'[i].by = c
             /\ task'[i].slot \in Slots /\ pending'[task'[i].slot] = i
             /\ task'[i] \in TaskRec
  <2> DEFINE s == CHOOSE j \in Slots : pending'[j] = i
  <2>1. s \in Slots /\ pending'[s] = i
    BY <1>6, <1>9
  <2>2. task'[i] = [state |-> "run", by |-> c, slot |-> s]
    BY <1>1, <1>9
  <2> HIDE DEF s
  <2> QED BY <2>1, <2>2 DEF TaskRec
<1>10. task' \in [Tasks -> TaskRec]
  <2>1. \A i \in Tasks : task'[i] \in TaskRec
    BY <1>8, <1>9 DEF SlotInv
  <2> QED BY <1>1, <2>1
<1>11. started' \in Nat /\ n' = Cardinality(Taken')
  <2>1. Taken' = {j \in Slots : pending'[j] # None}
    BY DEF Taken, Free
  <2> QED BY <1>1, <1>4, <1>6, <2>1
<1>12. \A i \in Tasks : task'[i].state # "none" => i <= started'
  BY <1>1, <1>4, <1>8 DEF SlotInv
<1>13. ASSUME NEW j \in Slots, ~Free(j)'
       PROVE  /\ task'[pending'[j]].slot = j
              /\ task'[pending'[j]].state \in {"run", "sent"}
              /\ task'[pending'[j]].by \in chain'
  <2>1. pending'[j] \in Tasks
    BY <1>6, <1>13 DEF Free
  <2>2. CASE Free(j)
    <3>1. pending'[j] \in started + 1..started + k
      BY <1>6, <1>13, <2>2 DEF Free
    <3>2. k > 0
      BY <1>4, <3>1
    <3>3. /\ task'[pending'[j]].state = "run" /\ task'[pending'[j]].by = c
          /\ task'[pending'[j]].slot \in Slots
          /\ pending'[task'[pending'[j]].slot] = pending'[j]
      BY <1>9, <2>1, <3>1
    <3>4. Free(task'[pending'[j]].slot)
      <4>1. ASSUME NEW l \in Slots, ~Free(l) PROVE pending'[l] \notin started + 1..started + k
        <5>1. pending'[l] = pending[l]
          BY <1>6, <4>1
        <5>2. pending[l] \in Tasks
          BY <4>1 DEF SlotInv, Free
        <5>3. task[pending[l]].state # "none"
          BY <4>1 DEF SlotInv
        <5> QED BY <1>7, <5>1, <5>2, <5>3
      <4> QED BY <3>1, <3>3, <4>1
    <3>5. task'[pending'[j]].slot = j
      BY <1>6, <1>13, <2>2, <3>3, <3>4 DEF Free
    <3> QED BY <1>5, <3>2, <3>3, <3>5
  <2>3. CASE ~Free(j)
    <3>1. /\ pending'[j] = pending[j] /\ task[pending[j]].slot = j
          /\ task[pending[j]].state \in {"run", "sent"} /\ task[pending[j]].by \in chain
      BY <1>6, <2>3 DEF SlotInv
    <3>2. task'[pending'[j]] = task[pending[j]]
      BY <1>7, <1>8, <2>1, <3>1
    <3> QED BY <1>5, <3>1, <3>2
  <2> QED BY <2>2, <2>3
<1>14. ASSUME NEW i \in Tasks, Heeded(i)' PROVE pending'[task'[i].slot] = i
  <2>1. CASE i \in started + 1..started + k
    BY <1>9, <2>1
  <2>2. CASE i \notin started + 1..started + k
    <3>1. task'[i] = task[i] /\ Heeded(i)
      BY <1>2, <1>8, <1>14, <2>2 DEF Heeded, Running
    <3>2. pending[task[i].slot] = i /\ task[i].slot \in Slots
      BY <3>1 DEF SlotInv, TaskRec
    <3>3. ~Free(task[i].slot)
      BY <3>2 DEF Free
    <3> QED BY <1>6, <3>1, <3>2, <3>3
  <2> QED BY <2>1, <2>2
<1> QED BY <1>6, <1>10, <1>11, <1>12, <1>13, <1>14 DEF SlotInv

\* A task that sends its result stays in its slot and is not heeded any more.
LEMMA SendSlots ==
    ASSUME SlotInv, NEW i \in Tasks, TaskSend(i)
    PROVE  SlotInv'
<1>1. task[i].state = "run" /\ task' = [task EXCEPT ![i].state = "sent"]
      /\ UNCHANGED <<pending, n, chain, cancelled, started>>
  BY Zenon DEF TaskSend, group
<1>2. task \in [Tasks -> TaskRec]
  BY DEF SlotInv
<1>3. /\ task'[i].state = "sent" /\ task'[i].by = task[i].by /\ task'[i].slot = task[i].slot
      /\ \A t \in Tasks : t # i => task'[t] = task[t]
      /\ task' \in [Tasks -> TaskRec]
  BY <1>1, <1>2 DEF TaskRec
<1>4. /\ pending' \in [Slots -> Tasks \cup {None}] /\ started' \in Nat
      /\ n' = Cardinality(Taken')
  <2>1. Taken' = Taken
    BY <1>1 DEF Taken, Free
  <2> QED BY <1>1, <2>1 DEF SlotInv
<1>5. \A t \in Tasks : task'[t].state # "none" => t <= started'
  BY <1>1, <1>3 DEF SlotInv
<1>6. ASSUME NEW j \in Slots, ~Free(j)'
      PROVE  /\ task'[pending'[j]].slot = j
             /\ task'[pending'[j]].state \in {"run", "sent"}
             /\ task'[pending'[j]].by \in chain'
  <2>1. /\ pending'[j] = pending[j] /\ pending[j] \in Tasks /\ chain' = chain
        /\ task[pending[j]].slot = j /\ task[pending[j]].state \in {"run", "sent"}
        /\ task[pending[j]].by \in chain
    BY <1>1, <1>6 DEF SlotInv, Free
  <2> QED BY <1>3, <2>1
<1>7. ASSUME NEW t \in Tasks, Heeded(t)' PROVE pending'[task'[t].slot] = t
  <2>1. t # i
    BY <1>3, <1>7 DEF Heeded, Running
  <2>2. task'[t] = task[t] /\ Heeded(t)
    BY <1>1, <1>3, <1>7, <2>1 DEF Heeded, Running
  <2> QED BY <1>1, <2>2 DEF SlotInv
<1> QED BY <1>3, <1>4, <1>5, <1>6, <1>7 DEF SlotInv

\* A task that leaves takes nothing but its own slot with it, and t.cancel is
\* dropped with the last one only.
LEMMA LeaveSlots ==
    ASSUME SlotInv, NEW i \in Tasks, TaskLeave(i)
    PROVE  SlotInv'
<1> DEFINE s == task[i].slot
<1>1. task[i].state = "sent" /\ task' = [task EXCEPT ![i].state = "done"]
      /\ started' = started
  BY Zenon DEF TaskLeave
<1>2. cancelled \subseteq cancelled' /\ Leave(i)
  <2>1. cancelled' = IF exec[task[i].by] = 1 THEN cancelled \cup {task[i].by} ELSE cancelled
    BY Zenon DEF TaskLeave
  <2> QED BY <2>1, Zenon DEF TaskLeave
<1>3. task \in [Tasks -> TaskRec] /\ pending \in [Slots -> Tasks \cup {None}] /\ s \in Slots
  BY DEF SlotInv, TaskRec
<1>4. /\ task'[i].state = "done" /\ \A t \in Tasks : t # i => task'[t] = task[t]
      /\ task' \in [Tasks -> TaskRec]
  BY <1>1, <1>3 DEF TaskRec
<1>5. started' \in Nat /\ \A t \in Tasks : task'[t].state # "none" => t <= started'
  BY <1>1, <1>4 DEF SlotInv
<1>6. /\ IsFiniteSet(Taken) /\ n \in Nat /\ n = Cardinality(Taken)
  BY RankTop DEF SlotInv
<1>7. ASSUME NEW t \in Tasks, Heeded(t)' PROVE t # i /\ task'[t] = task[t] /\ Heeded(t)
  BY <1>2, <1>4, <1>7 DEF Heeded, Running
<1>8. CASE pending[s] = i
  <2>1. pending' = [pending EXCEPT ![s] = None] /\ n' = n - 1
        /\ chain' = IF n = 1 THEN {} ELSE chain
    BY <1>2, <1>8, Zenon DEF Leave
  <2>2. s \in Taken /\ Taken' = Taken \ {s}
    BY <1>3, <1>8, <2>1 DEF Taken, Free
  <2>3. n' = Cardinality(Taken')
    <3>1. Cardinality(Taken \ {s}) = Cardinality(Taken) - 1
      BY <1>6, <2>2, FS_RemoveElement, Zenon
    <3> QED BY <1>6, <2>1, <2>2, <3>1
  <2>4. ASSUME NEW j \in Slots, ~Free(j)'
        PROVE  /\ j # s /\ ~Free(j) /\ pending'[j] = pending[j] /\ pending[j] \in Tasks
    BY <1>3, <2>1, <2>4 DEF Free
  <2>5. ASSUME NEW j \in Slots, ~Free(j)' PROVE chain' = chain
    <3>1. n # 1
      <4>1. ASSUME n = 1 PROVE FALSE
        <5>1. PICK x : Taken = {x}
          BY <1>6, <4>1, FS_Singleton, Zenon
        <5>2. j \in Taken
          BY <2>4, <2>5 DEF Taken
        <5> QED BY <2>2, <2>4, <2>5, <5>1, <5>2
      <4> QED BY <4>1
    <3> QED BY <2>1, <3>1
  <2>6. ASSUME NEW j \in Slots, ~Free(j)'
        PROVE  /\ task'[pending'[j]].slot = j
               /\ task'[pending'[j]].state \in {"run", "sent"}
               /\ task'[pending'[j]].by \in chain'
    <3>1. /\ task[pending[j]].slot = j /\ task[pending[j]].state \in {"run", "sent"}
          /\ task[pending[j]].by \in chain
      BY <2>4, <2>6 DEF SlotInv
    <3>2. pending[j] # i
      BY <2>4, <2>6, <3>1
    <3> QED BY <1>4, <2>4, <2>5, <2>6, <3>1, <3>2
  <2>7. ASSUME NEW t \in Tasks, Heeded(t)' PROVE pending'[task'[t].slot] = t
    <3>1. task'[t] = task[t] /\ task[t].slot \in Slots /\ pending[task[t].slot] = t /\ t # i
      BY <1>3, <1>7, <2>7 DEF SlotInv, TaskRec
    <3>2. task[t].slot # s
      BY <1>8, <3>1
    <3> QED BY <1>3, <2>1, <3>1, <3>2
  <2>8. pending' \in [Slots -> Tasks \cup {None}]
    BY <1>3, <2>1
  <2> QED BY <1>4, <1>5, <2>3, <2>6, <2>7, <2>8 DEF SlotInv
<1>9. CASE pending[s] # i
  <2>1. UNCHANGED <<pending, n, chain>>
    BY <1>2, <1>9, Zenon DEF Leave
  <2>2. n' = Cardinality(Taken')
    <3>1. Taken' = Taken
      BY <2>1 DEF Taken, Free
    <3> QED BY <1>6, <2>1, <3>1
  <2>3. ASSUME NEW j \in Slots, ~Free(j)'
        PROVE  /\ task'[pending'[j]].slot = j
               /\ task'[pending'[j]].state \in {"run", "sent"}
               /\ task'[pending'[j]].by \in chain'
    <3>1. /\ pending'[j] = pending[j] /\ pending[j] \in Tasks /\ chain' = chain
          /\ task[pending[j]].slot = j /\ task[pending[j]].state \in {"run", "sent"}
          /\ task[pending[j]].by \in chain
      BY <2>1, <2>3 DEF SlotInv, Free
    <3>2. pending[j] # i
      BY <1>9, <3>1
    <3> QED BY <1>4, <3>1, <3>2
  <2>4. ASSUME NEW t \in Tasks, Heeded(t)' PROVE pending'[task'[t].slot] = t
    <3>1. task'[t] = task[t] /\ pending[task[t].slot] = t
      BY <1>7, <2>4 DEF SlotInv
    <3> QED BY <2>1, <3>1
  <2> QED BY <1>3, <1>4, <1>5, <2>1, <2>2, <2>3, <2>4 DEF SlotInv
<1> QED BY <1>8, <1>9

\* Cancel leaves no task that runs and was not told to stop.
LEMMA CancelSlots ==
    ASSUME SlotInv, Cancel
    PROVE  SlotInv'
<1>1. /\ cancelled' = cancelled \cup chain /\ chain' = {} /\ n' = 0
      /\ pending' = [j \in Slots |-> None] /\ UNCHANGED <<task, started>>
  BY Zenon DEF Cancel
<1>2. n' = Cardinality(Taken')
  <2>1. Taken' = {}
    BY <1>1 DEF Taken, Free
  <2> QED BY <1>1, <2>1, FS_EmptySet
<1>3. \A j \in Slots : Free(j)'
  BY <1>1 DEF Free
<1>4. ASSUME NEW t \in Tasks, Heeded(t)' PROVE FALSE
  <2>1. Heeded(t) /\ task[t].by \notin chain
    BY <1>1, <1>4 DEF Heeded, Running
  <2>2. pending[task[t].slot] = t /\ task[t].slot \in Slots
    BY <2>1 DEF SlotInv, TaskRec
  <2>3. ~Free(task[t].slot)
    BY <2>2 DEF Free
  <2> QED BY <2>1, <2>2, <2>3 DEF SlotInv
<1> QED BY <1>1, <1>2, <1>3, <1>4 DEF SlotInv

\* The invariant holds in the beginning,
LEMMA SlotsInit == Init => SlotInv
<1> SUFFICES ASSUME Init PROVE SlotInv
  OBVIOUS
<1>1. pending = [j \in Slots |-> None] /\ n = 0 /\ chain = {} /\ started = 0
      /\ task = [i \in Tasks |-> [state |-> "none", by |-> None, slot |-> 1]]
  BY Zenon DEF Init
<1>2. task \in [Tasks -> TaskRec] /\ \A i \in Tasks : task[i].state = "none"
  <2>1. [state |-> "none", by |-> None, slot |-> 1] \in TaskRec
    BY DEF TaskRec, TaskGroupAssumption
  <2> QED BY <1>1, <2>1
<1>3. n = Cardinality(Taken)
  <2>1. Taken = {}
    BY <1>1 DEF Taken, Free
  <2> QED BY <1>1, <2>1, FS_EmptySet
<1> QED BY <1>1, <1>2, <1>3 DEF SlotInv, Free, Heeded, Running

\* is kept by each step,
LEMMA SlotsStep == SlotInv /\ [Next]_vars => SlotInv'
<1> SUFFICES ASSUME SlotInv, [Next]_vars PROVE SlotInv'
  OBVIOUS
<1>1. ASSUME NEW c \in Callers, Do(c) PROVE SlotInv'
  BY <1>1, DoSlots
<1>2. ASSUME UNCHANGED <<group, task, started>> PROVE SlotInv'
  <2>1. UNCHANGED <<pending, n, chain, cancelled, task, started>>
    BY <1>2, Zenon DEF group
  <2>2. Taken' = Taken
    BY <2>1 DEF Taken, Free
  <2> QED BY <2>1, <2>2 DEF SlotInv, Heeded, Running, Free
<1>3. ASSUME NEW c \in Callers, Receive(c) PROVE SlotInv'
  <2>1. UNCHANGED <<group, task, started>>
    BY <1>3, Zenon DEF Receive
  <2> QED BY <1>2, <2>1
<1>4. ASSUME NEW c \in Callers, Expire(c) PROVE SlotInv'
  <2>1. UNCHANGED <<group, task, started>>
    BY <1>4, Zenon DEF Expire
  <2> QED BY <1>2, <2>1
<1>5. ASSUME NEW i \in Tasks, TaskSend(i) PROVE SlotInv'
  BY <1>5, SendSlots
<1>6. ASSUME NEW i \in Tasks, TaskLeave(i) PROVE SlotInv'
  BY <1>6, LeaveSlots
<1>7. CASE Cancel
  BY <1>7, CancelSlots
<1>8. CASE UNCHANGED vars
  <2>1. UNCHANGED <<group, task, started>>
    BY <1>8, Zenon DEF vars
  <2> QED BY <1>2, <2>1
<1> QED BY <1>1, <1>3, <1>4, <1>5, <1>6, <1>7, <1>8, Zenon DEF Next

\* and so holds always.
LEMMA SlotInvariant == Spec => []SlotInv
  BY SlotsInit, SlotsStep, PTL DEF Spec

-----------------------------------------------------------------------------
(* What the group promises *)

\* The tasks that run and were not told to stop have slots of their own.
LEMMA HeededAtMostN == SlotInv => AtMostN
<1> SUFFICES ASSUME SlotInv PROVE AtMostN
  OBVIOUS
<1> DEFINE H == {i \in Tasks : Heeded(i)}
           f == [i \in H |-> task[i].slot]
<1>1. f \in [H -> Slots]
  BY DEF SlotInv, TaskRec
<1>2. \A a, b \in H : f[a] = f[b] => a = b
  BY DEF SlotInv
<1>3. IsFiniteSet(Slots) /\ Cardinality(Slots) = N
  BY FS_Interval
<1>4. Cardinality(H) <= N
  <2> HIDE DEF H, f
  <2>1. f \in Injection(H, Slots)
    BY <1>1, <1>2, Fun_IsInj
  <2>2. Cardinality(H) <= Cardinality(Slots)
    BY <1>3, <2>1, FS_Injection, Zenon
  <2> QED BY <1>3, <2>2
<1>5. n = Cardinality({j \in Slots : ~Free(j)})
  BY DEF SlotInv, Taken
<1> QED BY <1>4, <1>5 DEF AtMostN

\* "It is intended to execute at most N tasks at one time": the tasks that run and
\* were not told to stop are never more than N, in any order of calls of Do and
\* Cancel and of ends of tasks, and t.n counts the slots that are taken.
THEOREM AtMostNHolds == Spec => []AtMostN
  BY SlotInvariant, HeededAtMostN, PTL

\* Cancel reaches every task that runs and was not told to stop: its context is
\* among those that t.cancel ends, whichever call of Do started it.
THEOREM CancelReachesAllHolds == Spec => []CancelReachesAll
<1>1. SlotInv => CancelReachesAll
  <2> SUFFICES ASSUME SlotInv, NEW i \in Tasks, Heeded(i) PROVE task[i].by \in chain
    BY DEF CancelReachesAll
  <2>1. pending[task[i].slot] = i /\ task[i].slot \in Slots
    BY DEF SlotInv, TaskRec
  <2>2. ~Free(task[i].slot)
    BY <2>1 DEF Free
  <2> QED BY <2>1, <2>2 DEF SlotInv
<1> QED BY <1>1, SlotInvariant, PTL
=============================================================================
