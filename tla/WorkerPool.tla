----------------------------- MODULE WorkerPool -----------------------------
(***************************************************************************)
(* The goroutine pool of pkg/iproto/util/pool/pool.go: schedulers that put *)
(* tasks into the work queue or spawn extra workers, the workers, Close    *)
(* with its corking of the queues, Wait and Barrier.                       *)
(*                                                                         *)
(* An item of the work queue is a task, the bound task of a Wait (named by *)
(* the waiter) or STUB; an item of a worker's direct queue is the barrier  *)
(* task of a waiter or STUB.  A step ends where another goroutine can see  *)
(* or change what the next one uses.                                       *)
(***************************************************************************)
EXTENDS Integers, SequencesExt

CONSTANTS
    Tasks,         \* one goroutine each that schedules one task
    Waiters,       \* goroutines that call Wait or Barrier once
    Timed,         \* the waiters that call WaitTimeout or BarrierTimeout
    Cancelled,     \* the waiters that call WaitContext or BarrierContext
    Unstoppable,   \* the workers that New starts
    MaxWorkers,    \* Config.MaxWorkers; 0 is a rubber pool
    WorkQueueSize, \* Config.WorkQueueSize
    NoCork,        \* SetNoCork
    STUB,          \* stubTask
    None

\* An extra worker has the name of the task it was spawned with.
Workers == Unstoppable \cup Tasks

\* The last two lines of numbers are Config.check.
ASSUME PoolAssumption ==
    /\ WorkQueueSize \in Nat /\ MaxWorkers \in Nat /\ NoCork \in BOOLEAN
    /\ IsFiniteSet(Workers)
    /\ MaxWorkers > 0 => MaxWorkers >= Cardinality(Unstoppable)
    /\ Unstoppable = {} => WorkQueueSize = 0
    /\ Timed \subseteq Waiters /\ Cancelled \subseteq Waiters \ Timed
    /\ Tasks \cap Waiters = {} /\ Unstoppable \cap Tasks = {}
    /\ {STUB, None} \cap (Tasks \cup Waiters) = {} /\ STUB # None /\ None # "ok"

VARIABLES
    work,           \* p.work
    sem,            \* tokens in p.sem
    list,           \* p.list
    mode,           \* workers: where in run the worker is
    cur,            \* workers: the task it is running
    direct,         \* workers: w.direct, of capacity one
    spc, ret,       \* schedulers: program counter, result
    cpc, count,     \* Close: program counter, the i or the rest of j in cork(p.work)
    xpc, xret,      \* waiters: program counter, result
    crossed,        \* waiters: whether the bound task was run
    todo, need,     \* waiters: workers still to be sent to, tasks sent
    snap,           \* waiters: items in the channel of the barrier tasks
    expired,        \* waiters: the timer's tick, or the context
    before,         \* history: tasks that the Wait or Barrier is for
    finished        \* history: tasks that were executed

pool    == <<work, sem, list>>
workers == <<mode, cur, direct>>
sched   == <<spc, ret>>
close   == <<cpc, count>>
waiter  == <<xpc, xret, crossed, todo, need, snap, expired, before>>
vars    == <<pool, workers, sched, close, waiter, finished>>

killed == cpc # "open"
done   == cpc = "closed"

\* Until it closes w.done a worker holds its token of p.sem, and p.wg counts it.
Alive(w) == mode[w] \in {"loop", "drain", "cork"}
DoneClosed(w) == mode[w] \in {"released", "gone"}

Init ==
    /\ work = <<>> /\ list = SetToSeq(Unstoppable)
    /\ sem = IF MaxWorkers > 0 THEN Cardinality(Unstoppable) ELSE 0
    /\ mode = [w \in Workers |-> IF w \in Unstoppable THEN "loop" ELSE "none"]
    /\ cur = [w \in Workers |-> None] /\ direct = [w \in Workers |-> None]
    /\ spc = [s \in Tasks |-> "idle"] /\ ret = [s \in Tasks |-> None]
    /\ cpc = "open" /\ count = 0
    /\ xpc = [x \in Waiters |-> "idle"] /\ xret = [x \in Waiters |-> None]
    /\ crossed = [x \in Waiters |-> FALSE]
    /\ todo = [x \in Waiters |-> <<>>] /\ need = [x \in Waiters |-> 0]
    /\ snap = [x \in Waiters |-> 0] /\ expired = [x \in Waiters |-> "no"]
    /\ before = [x \in Waiters |-> {}] /\ finished = {}

-----------------------------------------------------------------------------
(* Run *)

\* Worker w begins with item i of the work queue.  The bound task of a Wait
\* only closes a channel.
Begin(w, i) ==
    IF i \in Waiters
    THEN /\ crossed' = [crossed EXCEPT ![i] = TRUE]
         /\ UNCHANGED cur
    ELSE /\ cur' = [cur EXCEPT ![w] = i]
         /\ UNCHANGED crossed

\* A send to p.work succeeds: into the buffer, or, without one, into the
\* hands of a receiver, a worker in one of receiving.
Put(i, receiving) ==
    \/ /\ Len(work) < WorkQueueSize
       /\ work' = Append(work, i)
       /\ UNCHANGED <<cur, crossed>>
    \/ /\ WorkQueueSize = 0
       /\ \E w \in Workers : mode[w] \in receiving /\ cur[w] = None /\ Begin(w, i)
       /\ UNCHANGED work

\* A timer is received from once; a context stays done.
Consume(x) == expired' = IF x \in Timed THEN [expired EXCEPT ![x] = "taken"] ELSE expired

\* Mutant of Finish: a barrier task does not see that its waiter has left.
FinishBlocks(w) ==
    /\ cur[w] # None
    /\ cur' = [cur EXCEPT ![w] = None]
    /\ \/ /\ cur[w] \in Tasks
          /\ finished' = finished \cup {cur[w]}
          /\ UNCHANGED snap
       \/ /\ cur[w] \in Waiters
          /\ snap[cur[w]] = 0
          /\ snap' = [snap EXCEPT ![cur[w]] = 1]
          /\ UNCHANGED finished
    /\ UNCHANGED <<pool, mode, direct, sched, close, xpc, xret, crossed, todo, need, expired, before>>

\* A task ends.  The task of a barrier sends to its waiter's channel of
\* capacity one, unless the waiter's timer or context ends it.
Finish(w) ==
    /\ cur[w] # None
    /\ cur' = [cur EXCEPT ![w] = None]
    /\ \/ /\ cur[w] \in Tasks
          /\ finished' = finished \cup {cur[w]}
          /\ UNCHANGED <<snap, expired>>
       \/ /\ cur[w] \in Waiters
          /\ snap[cur[w]] = 0
          /\ snap' = [snap EXCEPT ![cur[w]] = 1]
          /\ UNCHANGED <<finished, expired>>
       \/ /\ cur[w] \in Waiters
          /\ expired[cur[w]] = "yes"
          /\ Consume(cur[w])
          /\ UNCHANGED <<finished, snap>>
    /\ UNCHANGED <<pool, mode, direct, sched, close, xpc, xret, crossed, todo, need, before>>

TakeDirect(w) ==
    /\ mode[w] = "loop" /\ cur[w] = None /\ direct[w] # None
    /\ cur' = [cur EXCEPT ![w] = direct[w]]
    /\ direct' = [direct EXCEPT ![w] = None]
    /\ UNCHANGED <<pool, mode, sched, close, waiter, finished>>

TakeWork(w) ==
    /\ mode[w] \in {"loop", "drain"} /\ cur[w] = None /\ work # <<>>
    /\ work' = Tail(work)
    /\ Begin(w, Head(work))
    /\ UNCHANGED <<sem, list, mode, direct, sched, close, xpc, xret, todo, need,
                   snap, expired, before, finished>>

\* ttl of an extra worker.
Expire(w) ==
    /\ w \in Tasks
    /\ mode[w] = "loop" /\ cur[w] = None
    /\ mode' = [mode EXCEPT ![w] = "cork"]
    /\ UNCHANGED <<pool, cur, direct, sched, close, waiter, finished>>

GiveToken == sem' = IF MaxWorkers > 0 THEN sem - 1 ELSE sem

\* What a worker gives up with w.done: close(w.done), the token, wg.Done.
Release(w) ==
    /\ mode' = [mode EXCEPT ![w] = "released"]
    /\ GiveToken

\* The worker sees p.kill.
SeeKill(w) ==
    /\ killed
    /\ mode[w] = "loop" /\ cur[w] = None
    /\ IF NoCork
       THEN Release(w)
       ELSE /\ mode' = [mode EXCEPT ![w] = "drain"]
            /\ UNCHANGED sem
    /\ UNCHANGED <<work, list, cur, direct, sched, close, waiter, finished>>

\* The work queue is empty: the direct queue is corked next.
Drained(w) ==
    /\ mode[w] = "drain" /\ cur[w] = None /\ work = <<>>
    /\ mode' = [mode EXCEPT ![w] = "cork"]
    /\ UNCHANGED <<pool, cur, direct, sched, close, waiter, finished>>

\* Mutant of CorkDirect: the worker exits without a look at its direct queue.
CorkNothing(w) ==
    /\ mode[w] = "cork" /\ cur[w] = None
    /\ Release(w)
    /\ UNCHANGED <<work, list, cur, direct, sched, close, waiter, finished>>

\* cork(w.direct): what is in the queue is executed, then a stub fills it.
CorkDirect(w) ==
    /\ mode[w] = "cork" /\ cur[w] = None
    /\ IF direct[w] = None
       THEN /\ direct' = [direct EXCEPT ![w] = STUB]
            /\ Release(w)
            /\ UNCHANGED cur
       ELSE /\ cur' = [cur EXCEPT ![w] = direct[w]]
            /\ direct' = [direct EXCEPT ![w] = None]
            /\ UNCHANGED <<mode, sem>>
    /\ UNCHANGED <<work, list, sched, close, waiter, finished>>

\* The end of onStop.
Unlist(w) ==
    /\ mode[w] = "released"
    /\ mode' = [mode EXCEPT ![w] = "gone"]
    /\ \E i \in DOMAIN list : list[i] = w /\ list' = RemoveAt(list, i)
    /\ UNCHANGED <<work, sem, cur, direct, sched, close, waiter, finished>>

-----------------------------------------------------------------------------
(* schedule *)

Return(s, r) ==
    /\ spc' = [spc EXCEPT ![s] = "returned"]
    /\ ret' = [ret EXCEPT ![s] = r]

\* The optimistic select.  Without a buffer a worker that is about to wait
\* does not receive yet, so the default can be taken then too.
ScheduleTry(s) ==
    /\ spc[s] = "idle"
    /\ \/ killed /\ Return(s, "error") /\ UNCHANGED <<work, cur, crossed>>
       \/ Put(s, {"loop"}) /\ Return(s, "ok")
       \/ /\ ~killed /\ Len(work) = WorkQueueSize
          /\ spc' = [spc EXCEPT ![s] = IF MaxWorkers = 0 THEN "spawn" ELSE "select"]
          /\ UNCHANGED <<ret, work, cur, crossed>>
    /\ UNCHANGED <<sem, list, mode, direct, close, xpc, xret, todo, need, snap, expired, before,
                   finished>>

\* The second select, of a pool that is not rubber.
ScheduleSelect(s) ==
    /\ spc[s] = "select"
    /\ \/ Put(s, {"loop", "drain"}) /\ Return(s, "ok") /\ UNCHANGED sem
       \/ /\ sem < MaxWorkers
          /\ sem' = sem + 1
          /\ spc' = [spc EXCEPT ![s] = "spawn"]
          /\ UNCHANGED <<ret, work, cur, crossed>>
       \/ killed /\ Return(s, "error") /\ UNCHANGED <<sem, work, cur, crossed>>
    /\ UNCHANGED <<list, mode, direct, close, xpc, xret, todo, need, snap, expired, before,
                   finished>>

\* The timeout or the done channel of ScheduleTimeout, ScheduleImmediate,
\* ScheduleContext or ScheduleCustom ends the second select.
ScheduleCancel(s) ==
    /\ spc[s] = "select"
    /\ Return(s, "error")
    /\ UNCHANGED <<pool, workers, close, waiter, finished>>

\* The new worker is in the list, its goroutine about to run the task.
Start(s) ==
    /\ mode' = [mode EXCEPT ![s] = "loop"]
    /\ cur' = [cur EXCEPT ![s] = s]
    /\ list' = Append(list, s)
    /\ Return(s, "ok")

\* Mutant of Spawn: p.kill is not looked at under the mutex.
SpawnAlways(s) ==
    /\ spc[s] = "spawn"
    /\ Start(s)
    /\ UNCHANGED <<work, sem, direct, close, waiter, finished>>

\* Mutant of Spawn: the token is not given back.
SpawnKeepsToken(s) ==
    /\ spc[s] = "spawn"
    /\ IF killed THEN Return(s, "error") /\ UNCHANGED <<mode, cur, list>> ELSE Start(s)
    /\ UNCHANGED <<work, sem, direct, close, waiter, finished>>

\* spawn: p.mu orders it with the close of p.kill.
Spawn(s) ==
    /\ spc[s] = "spawn"
    /\ IF killed
       THEN GiveToken /\ Return(s, "error") /\ UNCHANGED <<mode, cur, list>>
       ELSE Start(s) /\ UNCHANGED sem
    /\ UNCHANGED <<work, direct, close, waiter, finished>>

-----------------------------------------------------------------------------
(* Close *)

\* The first Close closes p.kill under p.mu; a later one waits for p.done.
CloseKill ==
    /\ cpc = "open"
    /\ cpc' = "wait"
    /\ UNCHANGED <<pool, workers, sched, count, waiter, finished>>

Cork == cpc' = IF NoCork \/ WorkQueueSize = 0 THEN "closed" ELSE "fill"

\* Mutant of CloseWait: the queue is corked while workers read it.
CloseWaitsForNobody ==
    /\ cpc = "wait"
    /\ Cork
    /\ UNCHANGED <<pool, workers, sched, count, waiter, finished>>

\* p.wg.Wait.
CloseWait ==
    /\ cpc = "wait"
    /\ \A w \in Workers : ~Alive(w)
    /\ Cork
    /\ UNCHANGED <<pool, workers, sched, count, waiter, finished>>

\* Mutant of CloseFill: a full queue counts as corked.
CloseFillOnce ==
    /\ cpc = "fill"
    /\ IF Len(work) < WorkQueueSize
       THEN work' = Append(work, STUB) /\ cpc' = "fill"
       ELSE cpc' = "closed" /\ UNCHANGED work
    /\ UNCHANGED <<sem, list, workers, sched, count, waiter, finished>>

\* cork(p.work): a stub is put.  A full queue is drained, unless all stubs fit.
CloseFill ==
    /\ cpc = "fill"
    /\ IF Len(work) < WorkQueueSize
       THEN /\ work' = Append(work, STUB)
            /\ IF count + 1 = WorkQueueSize
               THEN cpc' = "closed" /\ count' = 0
               ELSE cpc' = "fill" /\ count' = count + 1
       ELSE /\ cpc' = "drain" /\ count' = WorkQueueSize
            /\ UNCHANGED work
    /\ UNCHANGED <<sem, list, workers, sched, waiter, finished>>

\* One item is taken and, unless it is a stub, executed by Close itself.
CloseDrain ==
    /\ cpc = "drain" /\ work # <<>>
    /\ work' = Tail(work)
    /\ finished' = finished \cup ({Head(work)} \cap Tasks)
    /\ crossed' = [x \in Waiters |-> crossed[x] \/ x = Head(work)]
    /\ count' = count - 1
    /\ cpc' = IF count = 1 THEN "fill" ELSE "drain"
    /\ UNCHANGED <<sem, list, workers, sched, xpc, xret, todo, need, snap, expired, before>>

-----------------------------------------------------------------------------
(* Wait and Barrier *)

Ended(x) == expired[x] = "yes"

Answer(x, r) ==
    /\ xpc' = [xpc EXCEPT ![x] = "returned"]
    /\ xret' = [xret EXCEPT ![x] = r]

TimerFires(x) ==
    /\ x \in Timed \cup Cancelled
    /\ expired[x] = "no"
    /\ expired' = [expired EXCEPT ![x] = "yes"]
    /\ UNCHANGED <<pool, workers, sched, close, xpc, xret, crossed, todo, need, snap, before,
                   finished>>

\* Wait is for the tasks whose scheduling has returned.
WaitStart(x) ==
    /\ xpc[x] = "idle"
    /\ xpc' = [xpc EXCEPT ![x] = "send"]
    /\ before' = [before EXCEPT ![x] = {s \in Tasks : ret[s] = "ok"}]
    /\ UNCHANGED <<pool, workers, sched, close, xret, crossed, todo, need, snap, expired, finished>>

\* The first select: the bound task goes past schedule.
WaitSend(x) ==
    /\ xpc[x] = "send"
    /\ \/ /\ Put(x, {"loop", "drain"})
          /\ xpc' = [xpc EXCEPT ![x] = "cross"]
          /\ UNCHANGED <<xret, expired>>
       \/ /\ done
          /\ Answer(x, "ok")
          /\ UNCHANGED <<work, cur, crossed, expired>>
       \/ /\ Ended(x)
          /\ Answer(x, "error") /\ Consume(x)
          /\ UNCHANGED <<work, cur, crossed>>
    /\ UNCHANGED <<sem, list, mode, direct, sched, close, todo, need, snap, before, finished>>

\* The second select; then barrier reads the list of workers.
WaitCross(x) ==
    /\ xpc[x] = "cross"
    /\ \/ /\ crossed[x]
          /\ xpc' = [xpc EXCEPT ![x] = "multicast"]
          /\ todo' = [todo EXCEPT ![x] = list]
          /\ UNCHANGED <<xret, expired>>
       \/ /\ Ended(x)
          /\ Answer(x, "error") /\ Consume(x)
          /\ UNCHANGED todo
    /\ UNCHANGED <<pool, workers, sched, close, crossed, need, snap, before, finished>>

\* Barrier is for the tasks that the workers run.
BarrierStart(x) ==
    /\ xpc[x] = "idle"
    /\ xpc' = [xpc EXCEPT ![x] = "multicast"]
    /\ todo' = [todo EXCEPT ![x] = list]
    /\ before' = [before EXCEPT ![x] = {s \in Tasks : \E w \in Workers : cur[w] = s}]
    /\ UNCHANGED <<pool, workers, sched, close, xret, crossed, need, snap, expired, finished>>

\* One turn of the loop of multicast.
Multicast(x) ==
    /\ xpc[x] = "multicast" /\ todo[x] # <<>>
    /\ LET w == Head(todo[x]) IN
       \/ /\ direct[w] = None
          /\ direct' = [direct EXCEPT ![w] = x]
          /\ need' = [need EXCEPT ![x] = @ + 1]
          /\ todo' = [todo EXCEPT ![x] = Tail(@)]
          /\ UNCHANGED <<xpc, xret, expired>>
       \/ /\ DoneClosed(w)
          /\ todo' = [todo EXCEPT ![x] = Tail(@)]
          /\ UNCHANGED <<direct, need, xpc, xret, expired>>
       \/ /\ Ended(x)
          /\ Answer(x, "error") /\ Consume(x)
          /\ UNCHANGED <<direct, need, todo>>
    /\ UNCHANGED <<pool, mode, cur, sched, close, crossed, snap, before, finished>>

\* Mutant of Collect: one answer is enough.
CollectOne(x) ==
    /\ xpc[x] = "multicast" /\ todo[x] = <<>>
    /\ need[x] = 0 \/ snap[x] = 1
    /\ Answer(x, "ok")
    /\ UNCHANGED <<pool, workers, sched, close, crossed, todo, need, snap, expired, before, finished>>

\* The loop of barrier.
Collect(x) ==
    /\ xpc[x] = "multicast" /\ todo[x] = <<>>
    /\ \/ /\ need[x] = 0
          /\ Answer(x, "ok")
          /\ UNCHANGED <<need, snap, expired>>
       \/ /\ need[x] > 0 /\ snap[x] = 1
          /\ snap' = [snap EXCEPT ![x] = 0]
          /\ need' = [need EXCEPT ![x] = @ - 1]
          /\ UNCHANGED <<xpc, xret, expired>>
       \/ /\ need[x] > 0 /\ Ended(x)
          /\ Answer(x, "error") /\ Consume(x)
          /\ UNCHANGED <<need, snap>>
    /\ UNCHANGED <<pool, workers, sched, close, crossed, todo, before, finished>>

-----------------------------------------------------------------------------

Work(w) ==
    Finish(w) \/ TakeDirect(w) \/ TakeWork(w) \/ SeeKill(w) \/ Drained(w) \/ CorkDirect(w) \/ Unlist(w)
Schedule(s) == ScheduleTry(s) \/ ScheduleSelect(s) \/ Spawn(s)
Closing == CloseWait \/ CloseFill \/ CloseDrain
Waiting(x) == WaitSend(x) \/ WaitCross(x) \/ Multicast(x) \/ Collect(x)

Next ==
    \/ \E w \in Workers : Work(w) \/ Expire(w)
    \/ \E s \in Tasks : Schedule(s) \/ ScheduleCancel(s)
    \/ CloseKill \/ Closing
    \/ \E x \in Waiters : WaitStart(x) \/ BarrierStart(x) \/ Waiting(x) \/ TimerFires(x)

Spec == Init /\ [][Next]_vars

\* Every goroutine that can run does, tasks end, and a timer that is set
\* fires; nobody has to call Close, Wait or Barrier or to end a context, and
\* no ttl of a worker has to end.
Fairness ==
    /\ \A w \in Workers : WF_vars(Work(w))
    /\ \A s \in Tasks : WF_vars(Schedule(s))
    /\ WF_vars(Closing)
    /\ \A x \in Waiters : WF_vars(Waiting(x)) /\ WF_vars(x \in Timed /\ xpc[x] # "idle" /\ TimerFires(x))

LiveSpec == Spec /\ Fairness

-----------------------------------------------------------------------------
(* Properties *)

Items == Tasks \cup Waiters \cup {STUB}

\* Every variable has its type; p.sem never holds more than its capacity.
TypeOK ==
    /\ work \in Seq(Items) /\ Len(work) <= WorkQueueSize
    /\ sem \in 0..MaxWorkers
    /\ list \in Seq(Workers)
    /\ mode \in [Workers -> {"none", "loop", "drain", "cork", "released", "gone"}]
    /\ cur \in [Workers -> Items \cup {None}]
    /\ direct \in [Workers -> Waiters \cup {STUB, None}]
    /\ spc \in [Tasks -> {"idle", "select", "spawn", "returned"}]
    /\ ret \in [Tasks -> {"ok", "error", None}]
    /\ cpc \in {"open", "wait", "fill", "drain", "closed"}
    /\ count \in 0..WorkQueueSize
    /\ xpc \in [Waiters -> {"idle", "send", "cross", "multicast", "returned"}]
    /\ xret \in [Waiters -> {"ok", "error", None}]
    /\ crossed \in [Waiters -> BOOLEAN]
    /\ todo \in [Waiters -> Seq(Workers)]
    /\ need \in [Waiters -> Nat]
    /\ snap \in [Waiters -> {0, 1}]
    /\ expired \in [Waiters -> {"no", "yes", "taken"}]
    /\ before \in [Waiters -> SUBSET Tasks] /\ finished \in SUBSET Tasks

\* The tokens of p.sem are those of the workers that live and of the
\* schedulers about to spawn, on every path through schedule, spawn and
\* onStop: no token is lost with a pool that closes meanwhile, and so there
\* are never more than MaxWorkers workers (Config.MaxWorkers).
TokensAccounted ==
    MaxWorkers > 0 =>
        sem = Cardinality({w \in Workers : Alive(w)}) + Cardinality({s \in Tasks : spc[s] = "spawn"})

\* Done "means that pool is done with all its work": when p.done is closed no
\* worker lives or can be spawned, every task that a Schedule* call accepted
\* was executed, and the corked queue takes no task any more.  The stub that
\* corks it "must never be executed" (panicTask.Run), whoever reads the queue.
DoneMeansDone ==
    /\ \A w \in Workers : cur[w] # STUB
    /\ done /\ ~NoCork =>
          /\ \A w \in Workers : ~Alive(w)
          /\ \A s \in Tasks : ret[s] = "ok" => s \in finished
          /\ Len(work) = WorkQueueSize /\ \A i \in DOMAIN work : work[i] = STUB

\* Wait returns nil only after all the tasks scheduled before it, Barrier
\* only after the tasks that the workers ran when it began, have been
\* executed, also when the pool grows, shrinks or closes meanwhile.
WaitMeansFinished ==
    ~NoCork => \A x \in Waiters : xret[x] = "ok" => before[x] \subseteq finished

\* "Close terminates all spawned goroutines" and returns; a Wait or a Barrier
\* returns, whether workers stop meanwhile, the pool is closed or other barriers
\* cross it.
CallsReturn ==
    /\ killed ~> done
    /\ \A x \in Waiters : (xpc[x] # "idle") ~> (xpc[x] = "returned")

\* A task that was accepted is executed, in an open pool and by a closing one.
AcceptedFinish == \A s \in Tasks : (ret[s] = "ok") ~> (s \in finished)
=============================================================================
